---- MODULE Spec2Model ----
(***************************************************************************)
(* Model of the finance/visualization tools of the mastra-ai-demo          *)
(* repository: record extraction from vector-store hits, the relevance     *)
(* filters, grouping/aggregation and the assembly of the chart payload     *)
(* and of the textual summary.                                             *)
(*                                                                         *)
(* JavaScript strings are TLA+ strings (TLC evaluates Len, Head, Tail,     *)
(* SubSeq and \o on them); an absent (undefined) string field is "" since  *)
(* the code only ever tests such fields for truthiness.                    *)
(***************************************************************************)
EXTENDS Integers, Sequences, FiniteSets, TLC

VARIABLES
    rev,          \* which revision of the tool file serves the request
    store,        \* the hits the vector store returns, best match first
    pc,           \* position of the request in its handler
    query,        \* the request's query string
    results,      \* `results` of pineconeVector.query
    transactions, \* `transactions` / `allTransactions` after extraction
    vizParams,    \* `vizParams.object` of generateObject
    response,     \* what the tool returns to its caller
    analysisPrompt, \* the prompt handed to generateObject
    res,          \* the bodies getVisualizeAgentResponse has written with res.json
    clock,        \* the day new Date() reads
    isInitialized, \* the module variable of the finance tool's first revision
    calls,        \* the calls of getFinanceData in flight, first revision
    inits,        \* the runs of initializeFinanceData the calls started
    steps,        \* `response.steps` of financeAgent.generate
    handler       \* getFinanceAgentResponse: its position and its res.json calls

mainVars == <<rev, pc, query, results, transactions, vizParams, response,
              analysisPrompt, res, clock>>
firstVars == <<isInitialized, calls, inits>>
handlerVars == <<steps, handler>>
vars == <<rev, store, pc, query, results, transactions, vizParams, response,
          analysisPrompt, res, clock, isInitialized, calls, inits, steps, handler>>

----------------------------------------------------------------------------
(* Strings *)

\* The printable ASCII characters in code-unit order, from 32 (space) on. The
\* grave accent (96) cannot be written in a string literal; its place is held by
\* a second "_", which IndexOfChar never returns.
Ascii == " !\"#$%&'()*+,-./0123456789:;<=>?@ABCDEFGHIJKLMNOPQRSTUVWXYZ[\\]^__abcdefghijklmnopqrstuvwxyz{|}~"

UpperChars == "ABCDEFGHIJKLMNOPQRSTUVWXYZ"
LowerChars == "abcdefghijklmnopqrstuvwxyz"

CharAt(s, i) == SubSeq(s, i, i)

\* String.prototype.indexOf for one character, counted from 1: 0 when c does
\* not occur in s, else its first position.
IndexOfChar(s, c) ==
    IF \E i \in 1..Len(s) : CharAt(s, i) = c
    THEN CHOOSE i \in {j \in 1..Len(s) : CharAt(s, j) = c} :
            \A j \in {k \in 1..Len(s) : CharAt(s, k) = c} : i <= j
    ELSE 0

Chars == {CharAt(Ascii, i) : i \in 1..Len(Ascii)} \cup {"\n"}

\* UTF-16 code unit of a character (newline is the only control character used).
CodeOf == [c \in Chars |-> IF c = "\n" THEN 10 ELSE 31 + IndexOfChar(Ascii, c)]
CharCode(c) == CodeOf[c]

IsDigit(c) == CharCode(c) >= 48 /\ CharCode(c) <= 57
IsUpper(c) == CharCode(c) >= 65 /\ CharCode(c) <= 90
IsLower(c) == CharCode(c) >= 97 /\ CharCode(c) <= 122
IsSpace(c) == c = " " \/ c = "\n"

LowerOf == [c \in Chars |->
               IF IndexOfChar(UpperChars, c) > 0
               THEN CharAt(LowerChars, IndexOfChar(UpperChars, c)) ELSE c]
UpperOf == [c \in Chars |->
               IF IndexOfChar(LowerChars, c) > 0
               THEN CharAt(UpperChars, IndexOfChar(LowerChars, c)) ELSE c]
LowerChar(c) == LowerOf[c]
UpperChar(c) == UpperOf[c]

RECURSIVE toLowerCase(_)
toLowerCase(s) ==
    IF s = "" THEN "" ELSE LowerChar(Head(s)) \o toLowerCase(Tail(s))

\* String.prototype.includes
includes(s, sub) ==
    \E i \in 1..(Len(s) - Len(sub) + 1) : SubSeq(s, i, i + Len(sub) - 1) = sub

\* a < b on strings: lexicographic by code unit, a proper prefix first.
RECURSIVE StrLess(_, _)
StrLess(a, b) ==
    IF b = "" THEN FALSE
    ELSE IF a = "" THEN TRUE
    ELSE IF Head(a) = Head(b) THEN StrLess(Tail(a), Tail(b))
    ELSE CharCode(Head(a)) < CharCode(Head(b))

StrGreater(a, b) == StrLess(b, a)

RECURSIVE trimStart(_)
trimStart(s) == IF s # "" /\ IsSpace(Head(s)) THEN trimStart(Tail(s)) ELSE s

RECURSIVE trimEnd(_)
trimEnd(s) ==
    IF s # "" /\ IsSpace(CharAt(s, Len(s))) THEN trimEnd(SubSeq(s, 1, Len(s) - 1)) ELSE s

trim(s) == trimEnd(trimStart(s))

\* s.replace(/\s+/g, " "): every run of white space becomes one space.
RECURSIVE collapseWhitespace(_)
collapseWhitespace(s) ==
    IF s = "" THEN ""
    ELSE IF IsSpace(Head(s)) THEN " " \o collapseWhitespace(trimStart(s))
    ELSE Head(s) \o collapseWhitespace(Tail(s))

\* s.split(sep) for a one-character separator.
RECURSIVE split(_, _)
split(s, sep) ==
    LET i == IndexOfChar(s, sep)
    IN  IF i = 0 THEN <<s>>
        ELSE <<SubSeq(s, 1, i - 1)>> \o split(SubSeq(s, i + 1, Len(s)), sep)

\* parts.join(sep)
RECURSIVE join(_, _)
join(parts, sep) ==
    IF parts = <<>> THEN ""
    ELSE IF Len(parts) = 1 THEN parts[1]
    ELSE parts[1] \o sep \o join(Tail(parts), sep)

AllDigits(s) == s # "" /\ \A i \in 1..Len(s) : IsDigit(CharAt(s, i))

RECURSIVE DigitsValue(_, _)
DigitsValue(s, acc) ==
    IF s = "" THEN acc
    ELSE DigitsValue(Tail(s), 10 * acc + (CharCode(Head(s)) - 48))

Abs(n) == IF n < 0 THEN -n ELSE n

\* Array.prototype.filter
filter(seq, keep(_)) == SelectSeq(seq, keep)

\* Array.prototype.slice(0, n)
slice0(seq, n) == SubSeq(seq, 1, IF Len(seq) < n THEN Len(seq) ELSE n)

\* Array.prototype.sort(cmp), which is stable: an element goes after every
\* element that sorts before it and after every earlier element it does not
\* sort before. before(a, b) is cmp(a, b) < 0.
sortBy(seq, before(_, _)) ==
    LET n == Len(seq)
        ahead(i) == {j \in 1..n : \/ before(seq[j], seq[i])
                                  \/ (j < i /\ ~before(seq[i], seq[j]))}
    IN  [k \in 1..n |-> seq[CHOOSE i \in 1..n : Cardinality(ahead(i)) = k - 1]]

----------------------------------------------------------------------------
(* JavaScript values *)

\* A value of the `amount` field: a number, a string, or undefined.
Num(n) == [kind |-> "number", num |-> n, str |-> ""]
Str(s) == [kind |-> "string", num |-> 0, str |-> s]
Undefined == [kind |-> "undefined", num |-> 0, str |-> ""]

\* ToBoolean
truthy(v) ==
    CASE v.kind = "number" -> v.num # 0
      [] v.kind = "string" -> v.str # ""
      [] OTHER -> FALSE

\* Number(v): the numeric value, or NaN. A string converts when, trimmed, it
\* is empty or an optionally signed run of digits.
Number(v) ==
    CASE v.kind = "number" -> [nan |-> FALSE, val |-> v.num]
      [] v.kind = "string" ->
            LET t == trim(v.str)
            IN  IF t = "" THEN [nan |-> FALSE, val |-> 0]
                ELSE IF AllDigits(t) THEN [nan |-> FALSE, val |-> DigitsValue(t, 0)]
                ELSE IF Head(t) = "-" /\ AllDigits(Tail(t))
                     THEN [nan |-> FALSE, val |-> -DigitsValue(Tail(t), 0)]
                ELSE IF Head(t) = "+" /\ AllDigits(Tail(t))
                     THEN [nan |-> FALSE, val |-> DigitsValue(Tail(t), 0)]
                ELSE [nan |-> TRUE, val |-> 0]
      [] OTHER -> [nan |-> TRUE, val |-> 0]

\* `${v}` in a template literal
toText(v) ==
    CASE v.kind = "number" -> ToString(v.num)
      [] v.kind = "string" -> v.str
      [] OTHER -> "undefined"

\* A similarity score, in hundredths (0.7 is 70), or undefined.
Score(n) == [has |-> TRUE, v |-> n]
NoScore == [has |-> FALSE, v |-> 0]

\* A value of a `transactions` collection: an object with the fields the code
\* reads, or null. A missing string field is "".
Transaction(date, amount, type, description, category, topLevelCategory, currencyCode, merchant) ==
    [json |-> "object", date |-> date, amount |-> amount, currencyCode |-> currencyCode,
     description |-> description, category |-> category,
     topLevelCategory |-> topLevelCategory, type |-> type, merchant |-> merchant,
     userGuid |-> "", relevanceScore |-> NoScore, _score |-> NoScore]

Null == [Transaction("", Undefined, "", "", "", "", "", "") EXCEPT !.json = "null"]

\* `transaction && ...`
isObject(t) == t.json = "object"

\* The text of a hit's metadata: `valid` says whether it is JSON, `value` is
\* what it denotes (for a text that is not JSON, what its fragment spells out).
Document(values) == [json |-> "object", hasTransactions |-> TRUE, transactions |-> values]
NoTransactions == [json |-> "object", hasTransactions |-> FALSE, transactions |-> <<>>]
NullDocument == [json |-> "null", hasTransactions |-> FALSE, transactions |-> <<>>]

Hit(valid, doc, score) == [hasText |-> TRUE, text |-> [valid |-> valid, value |-> doc], score |-> score]
NoTextHit(score) == [hasText |-> FALSE, text |-> [valid |-> FALSE, value |-> NullDocument], score |-> score]

\* JSON.parse: the value, or a SyntaxError.
JSONParse(text) ==
    IF text.valid THEN [threw |-> FALSE, value |-> text.value]
    ELSE [threw |-> TRUE, value |-> NullDocument]

----------------------------------------------------------------------------
(* Visualization tool, current revision *)

RECURSIVE flatten(_)
flatten(seqs) == IF seqs = <<>> THEN <<>> ELSE Head(seqs) \o flatten(Tail(seqs))

\* The keep test of the finance tool in the place of the visualization tool's.
keepVisualizationDateOnly(transaction) == isObject(transaction) /\ transaction.date # ""

\* The test a value of `parsedData.transactions` passes to be pushed.
keepVisualization(transaction) ==
    /\ isObject(transaction)
    /\ transaction.date # ""
    /\ truthy(transaction.amount)
    /\ (transaction.type # "" \/ transaction.category # "" \/ transaction.description # "")

\* `result.score || 0`
scoreOrZero(score) == IF score.has /\ score.v # 0 THEN score ELSE Score(0)

\* One turn of the loop over `results`: the records the hit adds. A text that
\* is not JSON makes JSON.parse throw and a null document makes the property
\* read throw; the catch swallows both before anything was pushed.
hitVisualization(result) ==
    IF ~result.hasText THEN <<>>
    ELSE LET parsed == JSONParse(result.text)
         IN  IF parsed.threw \/ parsed.value.json = "null" THEN <<>>
             ELSE IF ~parsed.value.hasTransactions THEN <<>>
             ELSE LET kept == filter(parsed.value.transactions, keepVisualization)
                  IN  [i \in 1..Len(kept) |->
                          [kept[i] EXCEPT !.relevanceScore = scoreOrZero(result.score)]]

\* A try around the whole loop instead of one per hit: the first hit that
\* throws ends the extraction.
extractVisualizationOuterTry(hits) ==
    LET throws(h) == h.hasText /\ (JSONParse(h.text).threw \/ JSONParse(h.text).value.json = "null")
        bad == {i \in 1..Len(hits) : throws(hits[i])}
        stop == IF bad = {} THEN Len(hits) + 1 ELSE CHOOSE i \in bad : \A j \in bad : i <= j
    IN  flatten([i \in 1..(stop - 1) |-> hitVisualization(hits[i])])

extractVisualization(hits) == flatten([i \in 1..Len(hits) |-> hitVisualization(hits[i])])

\* description.toLowerCase().replace(/\s+/g, " ").trim()
simplifiedDesc(description) == trim(collapseWhitespace(toLowerCase(description)))

\* descriptionCounts.get(desc) || 0 after the counting pass
descriptionCount(txs, desc) ==
    Cardinality({i \in 1..Len(txs) :
        txs[i].description # "" /\ simplifiedDesc(txs[i].description) = desc})

\* The second pass looks the description up as it is written, not simplified.
isRecurringUnsimplified(txs, t) ==
    t.description # "" /\ descriptionCount(txs, t.description) > 1

isRecurring(txs, t) ==
    t.description # "" /\ descriptionCount(txs, simplifiedDesc(t.description)) > 1

\* Both passes without the test for a description.
findRecurringTransactionsUnguarded(txs) ==
    filter(txs, LAMBDA t :
        Cardinality({i \in 1..Len(txs) :
            simplifiedDesc(txs[i].description) = simplifiedDesc(t.description)}) > 1)

findRecurringTransactions(txs) == filter(txs, LAMBDA t : isRecurring(txs, t))

\* The test of the type alone.
isIncomeByType(t) == t.type = "income"

isIncome(t) == t.type = "income" \/ (t.amount.kind = "number" /\ t.amount.num > 0)
isExpense(t) == t.type = "expense" \/ (t.amount.kind = "number" /\ t.amount.num < 0)

filterTransactionsByType(txs, filterType) ==
    IF filterType = "income_only" THEN filter(txs, isIncome)
    ELSE IF filterType = "expenses_only" THEN filter(txs, isExpense)
    ELSE IF filterType = "recurring_only" THEN findRecurringTransactions(txs)
    ELSE txs

matchesKeyword(t, lowercaseKeywords) ==
    \E k \in 1..Len(lowercaseKeywords) :
        \/ includes(toLowerCase(t.description), lowercaseKeywords[k])
        \/ includes(toLowerCase(t.category), lowercaseKeywords[k])
        \/ includes(toLowerCase(t.merchant), lowercaseKeywords[k])
        \/ includes(toLowerCase(t.type), lowercaseKeywords[k])

\* (b.relevanceScore || 0) - (a.relevanceScore || 0) < 0
higherRelevance(a, b) == scoreOrZero(a.relevanceScore).v > scoreOrZero(b.relevanceScore).v

\* filtered.sort(...) when some record carries a score
sortByRelevance(filtered) ==
    IF \E i \in 1..Len(filtered) : filtered[i].relevanceScore.has
    THEN sortBy(filtered, higherRelevance)
    ELSE filtered

\* The keywords compared as they are written.
filterByKeywordsAsWritten(filtered, queryKeywords) ==
    IF Len(queryKeywords) > 0
    THEN sortByRelevance(filter(filtered, LAMBDA t : matchesKeyword(t, queryKeywords)))
    ELSE filtered

\* The `if (queryKeywords.length > 0)` block.
filterByKeywords(filtered, queryKeywords) ==
    IF Len(queryKeywords) > 0
    THEN sortByRelevance(filter(filtered, LAMBDA t :
             matchesKeyword(t, [k \in 1..Len(queryKeywords) |-> toLowerCase(queryKeywords[k])])))
    ELSE filtered

\* The `if (query.toLowerCase().includes("recurring"))` block.
filterByRecurringQuery(filtered, q) ==
    IF includes(toLowerCase(q), "recurring") THEN findRecurringTransactions(filtered)
    ELSE filtered

filterTransactionsByQuery(txs, q, queryKeywords, filterType) ==
    filterByRecurringQuery(
        filterByKeywords(filterTransactionsByType(txs, filterType), queryKeywords), q)

\* s.replace(/a|b|.../gi, ""): left to right, at each place the first
\* alternative that matches there is removed.
RECURSIVE removeAll(_, _)
removeAll(s, alternatives) ==
    IF s = "" THEN ""
    ELSE LET hits == {k \in 1..Len(alternatives) :
                        /\ Len(alternatives[k]) <= Len(s)
                        /\ toLowerCase(SubSeq(s, 1, Len(alternatives[k]))) = alternatives[k]}
         IN  IF hits = {} THEN Head(s) \o removeAll(Tail(s), alternatives)
             ELSE LET k == CHOOSE h \in hits : \A g \in hits : h <= g
                  IN  removeAll(SubSeq(s, Len(alternatives[k]) + 1, Len(s)), alternatives)

CleanupMaxLength == 25
CleanupKeptLength == 22

\* cleaned.length > 25 ? cleaned.substring(0, 22) + "..." : cleaned
shorten(cleaned) ==
    IF Len(cleaned) > CleanupMaxLength THEN SubSeq(cleaned, 1, CleanupKeptLength) \o "..."
    ELSE cleaned

cleanupDescription(description) ==
    IF description = "" THEN ""
    ELSE shorten(trim(removeAll(
             removeAll(description, <<"payment to", "payment from", "transfer to",
                                      "transfer from", "purchase at", "transaction at">>),
             <<"inc.", "llc", "ltd", "corp.", "corporation">>)))

\* /^\d{4}-\d{2}(-\d{2})?$/
isDateLabel(label) ==
    LET shape(s) == /\ Len(s) = 7
                    /\ AllDigits(SubSeq(s, 1, 4)) /\ CharAt(s, 5) = "-"
                    /\ AllDigits(SubSeq(s, 6, 7))
    IN  \/ shape(label)
        \/ /\ Len(label) = 10 /\ shape(SubSeq(label, 1, 7))
           /\ CharAt(label, 8) = "-" /\ AllDigits(SubSeq(label, 9, 10))

\* /^[A-Z][a-z]{2} \d{4}$/
isMonthLabel(label) ==
    /\ Len(label) = 8
    /\ IsUpper(CharAt(label, 1)) /\ IsLower(CharAt(label, 2)) /\ IsLower(CharAt(label, 3))
    /\ CharAt(label, 4) = " " /\ AllDigits(SubSeq(label, 5, 8))

capitalizeWord(word) ==
    IF word = "" THEN "" ELSE UpperChar(Head(word)) \o toLowerCase(Tail(word))

capitalizeLabel(label) ==
    IF label = "" THEN "Unknown"
    ELSE IF isDateLabel(label) \/ isMonthLabel(label) THEN label
    ELSE LET words == split(label, " ")
         IN  join([i \in 1..Len(words) |-> capitalizeWord(words[i])], " ")

MonthNames == <<"Jan", "Feb", "Mar", "Apr", "May", "Jun",
                "Jul", "Aug", "Sep", "Oct", "Nov", "Dec">>

\* new Date(date).toLocaleString("en-US", {month: "short", year: "numeric"}) for
\* a process whose time zone is UTC; a date that is not YYYY-MM-DD with a month
\* of the calendar is an Invalid Date.
monthLabel(date) ==
    IF isDateLabel(date) /\ Len(date) = 10 /\ DigitsValue(SubSeq(date, 6, 7), 0) \in 1..12
    THEN MonthNames[DigitsValue(SubSeq(date, 6, 7), 0)] \o " " \o SubSeq(date, 1, 4)
    ELSE "Invalid Date"

\* a || b || c on strings
firstNonEmpty(a, b, c) == IF a # "" THEN a ELSE IF b # "" THEN b ELSE c

groupKey(transaction, groupingMethod) ==
    IF groupingMethod = "by_category"
    THEN firstNonEmpty(transaction.category, cleanupDescription(transaction.description),
                       "Uncategorized")
    ELSE IF groupingMethod = "by_merchant"
    THEN firstNonEmpty(transaction.merchant, cleanupDescription(transaction.description),
                       "Unknown Merchant")
    ELSE IF groupingMethod = "by_type"
    THEN firstNonEmpty(transaction.type, "", "Unknown Type")
    ELSE IF groupingMethod = "by_month" /\ transaction.date # ""
    THEN monthLabel(transaction.date)
    ELSE IF groupingMethod = "by_date"
    THEN firstNonEmpty(transaction.date, "", "Unknown Date")
    ELSE firstNonEmpty(transaction.category, cleanupDescription(transaction.description),
                       "Uncategorized")

\* new Date().toISOString().split("T")[0]: the day the clock shows.
Today == clock

\* The amount added with its sign.
signedAmount(amount) == IF Number(amount).nan THEN 0 ELSE Number(amount).val

\* Math.abs(Number(transaction.amount) || 0)
absAmount(amount) == IF Number(amount).nan THEN 0 ELSE Abs(Number(amount).val)

\* A new entry for every record, whether or not the Map has the key.
withGroupAlways(groupedData, key, transaction) ==
    Append(groupedData,
           [key |-> key, totalAmount |-> 0,
            mostRecentDate |-> IF transaction.date # "" THEN transaction.date ELSE Today,
            transactions |-> <<>>])

\* groupedData.set(key, {...}) when the Map has no entry for the key. The Map
\* is the sequence of its entries in insertion order.
withGroup(groupedData, key, transaction) ==
    IF \E i \in 1..Len(groupedData) : groupedData[i].key = key THEN groupedData
    ELSE Append(groupedData,
                [key |-> key, totalAmount |-> 0,
                 mostRecentDate |-> IF transaction.date # "" THEN transaction.date ELSE Today,
                 transactions |-> <<>>])

\* groupedData.get(key), as the place of the entry
indexOfGroup(groupedData, key) == CHOOSE i \in 1..Len(groupedData) : groupedData[i].key = key

\* The date comparison turned around: the group keeps its least date.
addToEntryOldest(groupedData, at, transaction) ==
    [groupedData EXCEPT ![at] =
        [key |-> @.key,
         totalAmount |-> @.totalAmount + absAmount(transaction.amount),
         mostRecentDate |->
             IF transaction.date # "" /\ StrLess(transaction.date, @.mostRecentDate)
             THEN transaction.date ELSE @.mostRecentDate,
         transactions |-> Append(@.transactions, transaction)]]

\* The updates of `group`: the total, the members, the most recent date.
addToEntry(groupedData, at, transaction) ==
    [groupedData EXCEPT ![at] =
        [key |-> @.key,
         totalAmount |-> @.totalAmount + absAmount(transaction.amount),
         mostRecentDate |->
             IF transaction.date # "" /\ StrGreater(transaction.date, @.mostRecentDate)
             THEN transaction.date ELSE @.mostRecentDate,
         transactions |-> Append(@.transactions, transaction)]]

addToKey(groupedData, key, transaction) ==
    addToEntry(groupedData, indexOfGroup(groupedData, key), transaction)

\* A record whose amount adds nothing is left out of the groups.
addToGroupUnlessZero(groupedData, transaction, groupingMethod) ==
    IF absAmount(transaction.amount) = 0 THEN groupedData
    ELSE addToKey(withGroup(groupedData, groupKey(transaction, groupingMethod), transaction),
                  groupKey(transaction, groupingMethod), transaction)

\* One turn of the forEach of groupTransactions: the Map after `transaction`
\* was added to the group of its key.
addToGroup(groupedData, transaction, groupingMethod) ==
    addToKey(withGroup(groupedData, groupKey(transaction, groupingMethod), transaction),
             groupKey(transaction, groupingMethod), transaction)

RECURSIVE groupInto(_, _, _)
groupInto(groupedData, txs, groupingMethod) ==
    IF txs = <<>> THEN groupedData
    ELSE groupInto(addToGroup(groupedData, Head(txs), groupingMethod), Tail(txs), groupingMethod)

groupTransactions(txs, groupingMethod) == groupInto(<<>>, txs, groupingMethod)

\* b.value - a.value < 0
higherValue(a, b) == a.value > b.value

\* Every entry dated with the day it was made.
entriesOfStamped(groupedData) ==
    [i \in 1..Len(groupedData) |->
        [label |-> capitalizeLabel(groupedData[i].key),
         value |-> groupedData[i].totalAmount,
         date |-> Today]]

\* Array.from(groupedData.entries()).map(...)
entriesOf(groupedData) ==
    [i \in 1..Len(groupedData) |->
        [label |-> capitalizeLabel(groupedData[i].key),
         value |-> groupedData[i].totalAmount,
         date |-> groupedData[i].mostRecentDate]]

processTransactionsForVisualization(txs, groupingMethod, filterType, q, queryKeywords) ==
    sortBy(entriesOf(groupTransactions(
               filterTransactionsByQuery(txs, q, queryKeywords, filterType), groupingMethod)),
           higherValue)

----------------------------------------------------------------------------
(* Finance tool, current revision *)

\* queryLower.split(/\s+/).filter((term) => term.length > 2)
queryTerms(q) ==
    filter(split(collapseWhitespace(toLowerCase(q)), " "), LAMBDA term : Len(term) > 2)

keepFinance(transaction) == isObject(transaction) /\ transaction.date # ""

hitFinance(data) ==
    IF ~data.hasText THEN <<>>
    ELSE LET parsed == JSONParse(data.text)
         IN  IF parsed.threw \/ parsed.value.json = "null" THEN <<>>
             ELSE IF ~parsed.value.hasTransactions THEN <<>>
             ELSE LET kept == filter(parsed.value.transactions, keepFinance)
                  IN  [i \in 1..Len(kept) |-> [kept[i] EXCEPT !._score = data.score]]

extractFinance(hits) == flatten([i \in 1..Len(hits) |-> hitFinance(hits[i])])

MinScoreThreshold == 70
AmountTolerance == 5

termsMatch(field, terms) ==
    field # "" /\ \E k \in 1..Len(terms) : includes(toLowerCase(field), terms[k])

\* term.match(/\d+(\.\d+)?/): the first run of digits of the term and, when a
\* point and digits follow it, those digits.
RECURSIVE leadingDigits(_)
leadingDigits(s) ==
    IF s # "" /\ IsDigit(Head(s)) THEN Head(s) \o leadingDigits(Tail(s)) ELSE ""

RECURSIVE numMatch(_)
numMatch(term) ==
    IF term = "" THEN [found |-> FALSE, whole |-> "", fraction |-> ""]
    ELSE IF IsDigit(Head(term))
    THEN LET whole == leadingDigits(term)
             rest == SubSeq(term, Len(whole) + 1, Len(term))
         IN  [found |-> TRUE, whole |-> whole,
              fraction |-> IF rest # "" /\ Head(rest) = "." THEN leadingDigits(Tail(rest))
                           ELSE ""]
    ELSE numMatch(Tail(term))

RECURSIVE pow10(_)
pow10(k) == IF k = 0 THEN 1 ELSE 10 * pow10(k - 1)

\* Math.abs(transaction.amount - parseFloat(numMatch[0])) < 5, both sides
\* scaled by the power of ten that makes the query amount an integer.
amountMatches(amount, term) ==
    LET m == numMatch(term)
        scale == pow10(Len(m.fraction))
    IN  /\ m.found
        /\ truthy(amount)
        /\ ~Number(amount).nan
        /\ Abs(Number(amount).val * scale - DigitsValue(m.whole \o m.fraction, 0))
              < AmountTolerance * scale

isDateTerm(term) ==
    \/ includes(term, "202")
    \/ \E i \in 1..Len(MonthNames) : includes(term, toLowerCase(MonthNames[i]))

\* The filter without the test of the score.
passesRelevanceUnscored(transaction, terms) ==
    \/ termsMatch(transaction.description, terms)
    \/ termsMatch(transaction.category, terms)
    \/ termsMatch(transaction.topLevelCategory, terms)
    \/ \E k \in 1..Len(terms) : amountMatches(transaction.amount, terms[k])
    \/ \E k \in 1..Len(terms) :
          /\ transaction.date # "" /\ isDateTerm(terms[k])
          /\ includes(toLowerCase(transaction.date), terms[k])

passesRelevance(transaction, terms) ==
    /\ ~(transaction._score.has /\ transaction._score.v < MinScoreThreshold)
    /\ \/ termsMatch(transaction.description, terms)
       \/ termsMatch(transaction.category, terms)
       \/ termsMatch(transaction.topLevelCategory, terms)
       \/ \E k \in 1..Len(terms) : amountMatches(transaction.amount, terms[k])
       \/ \E k \in 1..Len(terms) :
             /\ transaction.date # "" /\ isDateTerm(terms[k])
             /\ includes(toLowerCase(transaction.date), terms[k])

\* new Date(date).getTime(), up to a monotone change of scale: NaN unless the
\* date is YYYY-MM or YYYY-MM-DD.
getTime(date) ==
    IF isDateLabel(date)
    THEN [nan |-> FALSE,
          val |-> (DigitsValue(SubSeq(date, 1, 4), 0) * 12
                     + DigitsValue(SubSeq(date, 6, 7), 0)) * 31
                  + (IF Len(date) = 10 THEN DigitsValue(SubSeq(date, 9, 10), 0) ELSE 1)]
    ELSE [nan |-> TRUE, val |-> 0]

\* new Date(b.date).getTime() - new Date(a.date).getTime() < 0
newerFirst(a, b) ==
    ~getTime(a.date).nan /\ ~getTime(b.date).nan /\ getTime(a.date).val > getTime(b.date).val

SummaryLimit == 20

hasRequiredFields(transaction) ==
    /\ transaction.date # "" /\ truthy(transaction.amount)
    /\ transaction.currencyCode # "" /\ transaction.description # ""
    /\ transaction.category # "" /\ transaction.type # ""
    /\ transaction.topLevelCategory # ""

\* The line of a record without the test of its fields.
describeTransactionUnchecked(transaction) ==
    IF ~isObject(transaction) THEN ""
    ELSE "- Date: " \o transaction.date \o ", Amount: " \o toText(transaction.amount)
         \o " " \o transaction.currencyCode \o ", "
         \o "Description: " \o transaction.description
         \o ", Category: " \o transaction.category \o ", "
         \o "User: " \o firstNonEmpty(transaction.userGuid, "", "N/A") \o ", "
         \o "Top Level Category: " \o transaction.topLevelCategory
         \o ", Type: " \o transaction.type

describeTransaction(transaction) ==
    IF ~(isObject(transaction) /\ hasRequiredFields(transaction)) THEN ""
    ELSE "- Date: " \o transaction.date \o ", Amount: " \o toText(transaction.amount)
         \o " " \o transaction.currencyCode \o ", "
         \o "Description: " \o transaction.description
         \o ", Category: " \o transaction.category \o ", "
         \o "User: " \o firstNonEmpty(transaction.userGuid, "", "N/A") \o ", "
         \o "Top Level Category: " \o transaction.topLevelCategory
         \o ", Type: " \o transaction.type

\* limitedTransactions.map(...).filter(Boolean).join("\n")
transactionDescriptions(limitedTransactions) ==
    join(filter([i \in 1..Len(limitedTransactions) |->
                    describeTransaction(limitedTransactions[i])],
                LAMBDA line : line # ""),
         "\n")

NoMatchMessage == "No transactions matching your query were found."

\* The test of the header made on the number of records instead of the text.
summarizeByCount(limitedTransactions, emptyMessage) ==
    IF Len(limitedTransactions) > 0
    THEN "Found " \o ToString(Len(limitedTransactions)) \o " relevant transactions:\n"
         \o transactionDescriptions(limitedTransactions)
    ELSE emptyMessage

summarize(limitedTransactions, emptyMessage) ==
    LET descriptions == transactionDescriptions(limitedTransactions)
    IN  IF descriptions # ""
        THEN "Found " \o ToString(Len(limitedTransactions)) \o " relevant transactions:\n"
             \o descriptions
        ELSE emptyMessage

\* getFinanceData from the filter on: what it returns for the extracted records.
financeSummary(allTransactions, q) ==
    LET terms == queryTerms(q)
        filteredTransactions ==
            sortBy(filter(allTransactions, LAMBDA t : passesRelevance(t, terms)), newerFirst)
        limitedTransactions == slice0(filteredTransactions, SummaryLimit)
    IN  [summary |-> summarize(limitedTransactions, NoMatchMessage)]

----------------------------------------------------------------------------
(* Visualization tool, earlier revision (inline filter, leniency, padding) *)

keepVisualizationLegacy(transaction) ==
    /\ isObject(transaction)
    /\ transaction.date # ""
    /\ truthy(transaction.amount)
    /\ transaction.type # ""
    /\ transaction.description # ""

hitVisualizationLegacy(result) ==
    IF ~result.hasText THEN <<>>
    ELSE LET parsed == JSONParse(result.text)
         IN  IF parsed.threw \/ parsed.value.json = "null" THEN <<>>
             ELSE IF ~parsed.value.hasTransactions THEN <<>>
             ELSE filter(parsed.value.transactions, keepVisualizationLegacy)

extractVisualizationLegacy(hits) ==
    flatten([i \in 1..Len(hits) |-> hitVisualizationLegacy(hits[i])])

\* t.description.toLowerCase() of the recurring_only branch throws on a record
\* that has no description; nothing around the filter catches it.
filterThrowsLegacy(txs, filterType) ==
    filterType = "recurring_only" /\ \E i \in 1..Len(txs) : txs[i].description = ""

\* The recurring_only branch, on records that all have a description.
findRecurringInline(txs) ==
    filter(txs, LAMBDA t :
        Cardinality({i \in 1..Len(txs) :
            simplifiedDesc(txs[i].description) = simplifiedDesc(t.description)}) > 1)

LenientBelow == 3
LenientAbove == 5

\* The if/else chain on filterType.
filterByTypeLegacy(txs, filterType) ==
    IF filterType = "income_only" THEN filter(txs, isIncome)
    ELSE IF filterType = "expenses_only" THEN filter(txs, isExpense)
    ELSE IF filterType = "recurring_only" THEN findRecurringInline(txs)
    ELSE txs

\* The fallback to every transaction when too few are left.
lenient(txs, filteredTransactions) ==
    IF Len(filteredTransactions) < LenientBelow /\ Len(txs) > LenientAbove
    THEN txs
    ELSE filteredTransactions

filterLegacy(txs, filterType) == lenient(txs, filterByTypeLegacy(txs, filterType))

capitalizeLabelLegacy(label) ==
    IF label = "" THEN "Unknown"
    ELSE IF isDateLabel(label) THEN label
    ELSE LET words == split(label, " ")
         IN  join([i \in 1..Len(words) |-> capitalizeWord(words[i])], " ")

groupKeyLegacy(transaction, groupingMethod) ==
    IF groupingMethod = "by_date" THEN transaction.date
    ELSE IF groupingMethod = "by_month"
    THEN IF transaction.date # "" THEN slice0(transaction.date, 7) ELSE "Unknown"
    ELSE IF groupingMethod = "by_category"
    THEN firstNonEmpty(transaction.category, transaction.type, "Uncategorized")
    ELSE IF groupingMethod = "by_type"
    THEN firstNonEmpty(transaction.type, "", "Unknown")
    ELSE IF groupingMethod = "by_description"
    THEN firstNonEmpty(transaction.description, "", "Unknown")
    ELSE firstNonEmpty(transaction.category, transaction.type, "Uncategorized")

\* groupedData.set(key, (groupedData.get(key) || 0) + amount) on the
\* Map<string, number>, as its entries in insertion order.
addAmount(groupedData, key, amount) ==
    IF \E i \in 1..Len(groupedData) : groupedData[i].label = key
    THEN [i \in 1..Len(groupedData) |->
             IF groupedData[i].label = key
             THEN [groupedData[i] EXCEPT !.value = @ + amount]
             ELSE groupedData[i]]
    ELSE Append(groupedData, [label |-> key, value |-> amount])

\* One turn of the grouping forEach.
addToTotal(groupedData, transaction, groupingMethod) ==
    addAmount(groupedData, capitalizeLabelLegacy(groupKeyLegacy(transaction, groupingMethod)),
              absAmount(transaction.amount))

RECURSIVE totalsInto(_, _, _)
totalsInto(groupedData, txs, groupingMethod) ==
    IF txs = <<>> THEN groupedData
    ELSE totalsInto(addToTotal(groupedData, Head(txs), groupingMethod), Tail(txs),
                    groupingMethod)

\* transactions.find(...): the place of the first record one of whose category,
\* type and description capitalizes to the label, 0 when there is none.
findForLabel(label, txs) ==
    IF \E i \in 1..Len(txs) : \/ capitalizeLabelLegacy(txs[i].category) = label
                               \/ capitalizeLabelLegacy(txs[i].type) = label
                               \/ capitalizeLabelLegacy(txs[i].description) = label
    THEN CHOOSE i \in 1..Len(txs) :
            /\ \/ capitalizeLabelLegacy(txs[i].category) = label
               \/ capitalizeLabelLegacy(txs[i].type) = label
               \/ capitalizeLabelLegacy(txs[i].description) = label
            /\ \A j \in 1..(i - 1) :
                  /\ capitalizeLabelLegacy(txs[j].category) # label
                  /\ capitalizeLabelLegacy(txs[j].type) # label
                  /\ capitalizeLabelLegacy(txs[j].description) # label
    ELSE 0

dateAt(txs, found) == IF found = 0 THEN Today ELSE firstNonEmpty(txs[found].date, "", Today)

getDateForLabel(label, txs) ==
    IF isDateLabel(label) THEN label ELSE dateAt(txs, findForLabel(label, txs))

PaddedLength == 5
DefaultValue == 100

\* The padding loop from the turn with index i on. factors are the values of
\* 0.7 + Math.random() * 0.6 of the turns, in tenths; the amounts of the
\* inputs are multiples of ten, which keeps every product a whole number.
RECURSIVE padFrom(_, _, _)
padFrom(result, i, factors) ==
    IF i >= PaddedLength THEN result
    ELSE LET baseLabel == IF Len(result) > 0
                          THEN firstNonEmpty(result[1].label, "", "Recurring Item")
                          ELSE "Recurring Item"
             baseValue == IF Len(result) > 0 /\ result[1].value # 0 THEN result[1].value
                          ELSE DefaultValue
             baseDate == IF Len(result) > 0 THEN firstNonEmpty(result[1].date, "", Today)
                         ELSE Today
         IN  padFrom(Append(result, [label |-> baseLabel \o " " \o ToString(i + 1),
                                     value |-> (baseValue * Head(factors)) \div 10,
                                     date |-> baseDate]),
                     i + 1, Tail(factors))

needsPadding(result, q) ==
    Len(result) < LenientBelow /\ includes(toLowerCase(q), "recurring")

\* Array.from(groupedData.entries()).map(...)
entriesOfLegacy(groupedData, filteredTransactions) ==
    [i \in 1..Len(groupedData) |->
        [label |-> groupedData[i].label, value |-> groupedData[i].value,
         date |-> getDateForLabel(groupedData[i].label, filteredTransactions)]]

groupFiltered(filteredTransactions, groupingMethod) ==
    entriesOfLegacy(totalsInto(<<>>, filteredTransactions, groupingMethod), filteredTransactions)

\* The entries before the padding: one per group, in insertion order.
groupLegacy(txs, groupingMethod, filterType) ==
    groupFiltered(filterLegacy(txs, filterType), groupingMethod)

\* The padding block and the sort.
padAndSort(result, q, factors) ==
    sortBy(IF needsPadding(result, q) THEN padFrom(result, Len(result), factors) ELSE result,
           higherValue)

processTransactionsForVisualizationLegacy(txs, groupingMethod, filterType, q, factors) ==
    padAndSort(groupLegacy(txs, groupingMethod, filterType), q, factors)

----------------------------------------------------------------------------
(* Finance tool, earlier revision (no relevance filter, no score) *)

extractFinanceLegacy(hits) ==
    flatten([i \in 1..Len(hits) |->
        IF ~hits[i].hasText THEN <<>>
        ELSE LET parsed == JSONParse(hits[i].text)
             IN  IF parsed.threw \/ parsed.value.json = "null" THEN <<>>
                 ELSE IF ~parsed.value.hasTransactions THEN <<>>
                 ELSE filter(parsed.value.transactions, keepFinance)])

NoValidMessage == "No valid transactions found."

financeSummaryLegacy(allTransactions) ==
    [summary |-> summarize(slice0(sortBy(allTransactions, newerFirst), SummaryLimit),
                           NoValidMessage)]

----------------------------------------------------------------------------
(* Finance tool, first revision (one text per hit, no list of records) *)

describeTransactionFirst(transaction) ==
    IF ~(isObject(transaction) /\ hasRequiredFields(transaction)) THEN ""
    ELSE "- Date: " \o transaction.date \o ", Amount: " \o toText(transaction.amount)
         \o " " \o transaction.currencyCode \o ", "
         \o "Description: " \o transaction.description
         \o ", Category: " \o transaction.category \o ", "
         \o "User: " \o firstNonEmpty(transaction.userGuid, "", "N/A")
         \o "Top Level Category: " \o transaction.topLevelCategory
         \o "Type: " \o transaction.type

\* The text results.map(...) makes of one hit.
hitDescriptionsFirst(data) ==
    IF ~data.hasText THEN ""
    ELSE LET parsed == JSONParse(data.text)
         IN  IF parsed.threw \/ parsed.value.json = "null" THEN ""
             ELSE IF ~parsed.value.hasTransactions THEN ""
             ELSE LET values == parsed.value.transactions
                  IN  join(filter([i \in 1..Len(values) |->
                                      describeTransactionFirst(values[i])],
                                  LAMBDA line : line # ""),
                           "\n")

financeSummaryFirst(hits) ==
    LET descriptions ==
            join(filter([i \in 1..Len(hits) |-> hitDescriptionsFirst(hits[i])],
                        LAMBDA text : text # ""),
                 "\n")
    IN  [summary |-> IF descriptions # ""
                     THEN "Found relevant transactions:\n" \o descriptions
                     ELSE NoValidMessage]

----------------------------------------------------------------------------
(* The inputs: what the vector store holds, the queries, the chart parameters *)

food1 == Transaction("2024-01-05", Num(-50), "expense", "Cafe", "Food", "Food & Dining", "USD", "")
food2 == Transaction("2024-01-20", Num(-50), "expense", "Cafe", "Food", "Food & Dining", "USD", "")
rent == Transaction("2024-02-01", Num(-1200), "expense", "Payment to Acme Corp. rent",
                    "Housing", "Home", "USD", "Acme")
\* an amount that is no number, a description that differs in case and spacing
\* from "Cafe", no currency code
refund == Transaction("2024-01-10", Str("abc"), "expense", " CAFE  ", "Food", "Food & Dining", "", "")
salary == Transaction("2024-01-31", Num(3000), "income", "Salary", "Income", "Income", "USD",
                      "Employer Inc.")
undated == Transaction("", Num(-20), "expense", "Cash", "Misc", "Other", "USD", "")
free == Transaction("2024-01-15", Num(0), "expense", "Cafe", "Food", "Food & Dining", "USD", "")
bare == Transaction("2024-01-07", Num(-30), "", "", "", "", "USD", "")
latte == Transaction("2024-01-12", Num(-40), "expense", "cafe", "Food", "Food & Dining", "USD", "")
\* a positive amount under a type that is not "income"
cashback == Transaction("2024-01-18", Num(25), "transfer", "Cashback", "Rewards", "Income", "USD", "")
\* a negative amount with no type and no description
fee == Transaction("2024-01-25", Num(-3), "", "", "Fees", "Banking", "USD", "")
ghost == Transaction("2024-03-01", Num(-1), "expense", "Ghost", "Ghost", "Ghost", "USD", "")

hitFood == Hit(TRUE, Document(<<food1, food2>>), Score(85))
hitMixed == Hit(TRUE, Document(<<rent, refund, salary>>), Score(92))
hitPartial == Hit(TRUE, Document(<<undated, free, Null, bare>>), Score(75))
hitFar == Hit(TRUE, Document(<<latte, salary, cashback, fee>>), Score(60))
hitUnscored == Hit(TRUE, Document(<<refund>>), NoScore)
\* "{not json": the fragment spells out a record that must never surface
hitBroken == Hit(FALSE, Document(<<ghost>>), Score(99))
hitNull == Hit(TRUE, NullDocument, Score(80))
hitBlank == NoTextHit(Score(80))
hitTotals == Hit(TRUE, NoTransactions, Score(80))

Hits == {hitFood, hitMixed, hitPartial, hitFar, hitUnscored, hitBroken, hitNull, hitBlank,
         hitTotals}

MaxHits == 2

RECURSIVE SeqsUpTo(_, _)
SeqsUpTo(S, n) ==
    IF n = 0 THEN {<<>>}
    ELSE LET shorter == SeqsUpTo(S, n - 1)
         IN  shorter \cup {Append(q, x) : q \in {r \in shorter : Len(r) = n - 1}, x \in S}

\* The earlier visualization revision draws random numbers for every sparse
\* chart, so it is explored on the hits that differ for its extraction test.
LegacyHits == {hitFood, hitMixed, hitPartial, hitBroken, hitUnscored}

StoresOf(revision) ==
    SeqsUpTo(IF revision = "visualize_legacy" THEN LegacyHits ELSE Hits, MaxHits)

Queries == {"show food spending", "Recurring cafe payments of 3002 in 2024-01"}

\* The finance tool is also asked for amounts: a signed one and a zero.
FinanceQueries == Queries \cup {"refunds of -50 or 0.00"}

Groupings == {"by_category", "by_merchant", "by_type", "by_month", "by_date", "by_week"}
FilterTypes == {"all", "income_only", "expenses_only", "recurring_only", "query_specific"}
Keywords == {<<>>, <<"Cafe", "rent">>}

ChartParameters ==
    [visualizationType : {"bar"}, dataGrouping : Groupings, filterType : FilterTypes,
     title : {"Spending"}, xAxis : {"Group"}, yAxis : {"Amount"}, colors : {<<"#336699">>},
     queryKeywords : Keywords]

\* The earlier revision's schema has no queryKeywords.
LegacyChartParameters == {params \in ChartParameters : params.queryKeywords = <<>>}

NoParameters ==
    [visualizationType |-> "", dataGrouping |-> "", filterType |-> "", title |-> "",
     xAxis |-> "", yAxis |-> "", colors |-> <<>>, queryKeywords |-> <<>>]

\* transactions.slice(0, 5) in the analysis prompt
SampleSize == 5

NoPrompt == [query |-> "", transactions |-> <<>>]

\* getFinanceAgentResponse before a request: nothing passed to res.json.
NoHandler == [pc |-> "idle", calls |-> <<>>]

\* The days the requests are served on.
Days == <<"2024-01-10", "2024-02-15">>

NoOptions == [title |-> "", xAxis |-> "", yAxis |-> "", colors |-> <<>>]
NoResponse == [kind |-> "none", summary |-> "", type |-> "", data |-> <<>>, options |-> NoOptions]
ErrorResponse == [NoResponse EXCEPT !.kind = "error"]

\* 0.7 + Math.random() * 0.6 lies in [0.7, 1.3); in tenths.
RandomFactors == {7, 12}

\* financeData.data of ./finance-data: the user, the totals and the keyed
\* transactions the first revision loads into the store.
financeData ==
    [user |-> "user", totals |-> "totals",
     transactions |-> <<food1, food2, rent, refund, salary, latte>>]

batchSize == 5

\* Math.ceil(transactionKeys.length / batchSize)
batchCount == (Len(financeData.transactions) + batchSize - 1) \div batchSize

\* [{ text: JSON.stringify({ user }), type: "user" }] as the store returns it
userRecord == Hit(TRUE, NoTransactions, Score(80))
\* the text is compared by the store, not by the tool: a text of its own
totalsRecord == Hit(TRUE, NoTransactions, Score(81))

\* transactionKeys.slice(i, i + batchSize), i = index * batchSize
transactionBatch(index) ==
    SubSeq(financeData.transactions, index * batchSize + 1,
           IF (index + 1) * batchSize < Len(financeData.transactions)
           THEN (index + 1) * batchSize ELSE Len(financeData.transactions))

batchRecord(index) == Hit(TRUE, Document(transactionBatch(index)), Score(85))

MaxCallers == 2
Callers == 1..MaxCallers

\* The first revision does nothing with the query but embed it.
FirstQueries == {"show food spending"}

NoCall == [pc |-> "idle", query |-> "", results |-> <<>>, summary |-> ""]
NoRun == [stage |-> "none", index |-> 0]

\* The revisions of the two tool files: each is a program of its own.
Revisions == {"visualize", "visualize_legacy", "finance", "finance_legacy", "finance_first"}

----------------------------------------------------------------------------
(* The handlers *)

TopKVisualize == 50
TopKVisualizeLegacy == 25
TopKFinance == 200
TopKFinanceFirst == 10

Init ==
    /\ rev \in Revisions
    /\ store \in StoresOf(rev)
    /\ pc = "idle"
    /\ query = ""
    /\ results = <<>>
    /\ transactions = <<>>
    /\ vizParams = NoParameters
    /\ response = NoResponse
    /\ analysisPrompt = NoPrompt
    /\ res = <<>>
    /\ clock = Days[1]
    /\ isInitialized = TRUE
    /\ calls = [r \in Callers |-> NoCall]
    /\ inits = [r \in Callers |-> NoRun]
    /\ steps = <<>>
    /\ handler = NoHandler

\* The tool's execute is called with the request's query and awaits embed().
Request(q) ==
    /\ pc \in {"idle", "done", "failed"}
    /\ q \in Queries \/ rev \in {"finance", "finance_legacy", "finance_first"}
    /\ pc' = "retrieving"
    /\ query' = q
    /\ results' = <<>>
    /\ transactions' = <<>>
    /\ vizParams' = NoParameters
    /\ response' = NoResponse
    /\ analysisPrompt' = NoPrompt
    /\ res' = <<>>
    /\ UNCHANGED <<rev, store, clock>> /\ UNCHANGED firstVars /\ UNCHANGED handlerVars

\* getVisualizationData from the answer of pineconeVector.query to the await of
\* generateObject: the loop over the results.
VisualizeRetrieve ==
    /\ rev = "visualize" /\ pc = "retrieving"
    /\ results' = slice0(store, TopKVisualize)
    /\ transactions' = extractVisualization(results')
    /\ analysisPrompt' = [query |-> query, transactions |-> slice0(transactions', SampleSize)]
    /\ pc' = "generating"
    /\ UNCHANGED <<rev, store, query, vizParams, response, res, clock>> /\ UNCHANGED firstVars /\ UNCHANGED handlerVars

\* getVisualizationData from the answer of generateObject to its return.
VisualizeGenerate(params) ==
    /\ rev = "visualize" /\ pc = "generating"
    /\ vizParams' = params
    /\ response' =
          [kind |-> "chart", summary |-> "", type |-> params.visualizationType,
           data |-> processTransactionsForVisualization(transactions, params.dataGrouping,
                        params.filterType, query, params.queryKeywords),
           options |-> [title |-> params.title, xAxis |-> params.xAxis,
                        yAxis |-> params.yAxis, colors |-> params.colors]]
    /\ res' = <<[data |-> [type |-> response'.type, data |-> response'.data,
                           options |-> response'.options]]>>
    /\ pc' = "done"
    /\ UNCHANGED <<rev, store, query, results, transactions, analysisPrompt, clock>> /\ UNCHANGED firstVars /\ UNCHANGED handlerVars

\* getFinanceData from the answer of pineconeVector.query to its return.
FinanceRetrieve ==
    /\ rev = "finance" /\ pc = "retrieving"
    /\ results' = slice0(store, TopKFinance)
    /\ transactions' = extractFinance(results')
    /\ response' = [NoResponse EXCEPT !.kind = "summary",
                                      !.summary = financeSummary(transactions', query).summary]
    /\ pc' = "done"
    /\ UNCHANGED <<rev, store, query, vizParams, analysisPrompt, res, clock>> /\ UNCHANGED firstVars /\ UNCHANGED handlerVars

VisualizeLegacyRetrieve ==
    /\ rev = "visualize_legacy" /\ pc = "retrieving"
    /\ results' = slice0(store, TopKVisualizeLegacy)
    /\ transactions' = extractVisualizationLegacy(results')
    /\ analysisPrompt' = [query |-> query, transactions |-> transactions']
    /\ pc' = "generating"
    /\ UNCHANGED <<rev, store, query, vizParams, response, res, clock>> /\ UNCHANGED firstVars /\ UNCHANGED handlerVars

\* The draws of Math.random() the padding loop makes: one per turn.
drawsFor(result, q) == IF needsPadding(result, q) THEN PaddedLength - Len(result) ELSE 0

paddingDraws(txs, groupingMethod, filterType, q) ==
    drawsFor(groupLegacy(txs, groupingMethod, filterType), q)

VisualizeLegacyGenerate(params) ==
    /\ rev = "visualize_legacy" /\ pc = "generating"
    /\ vizParams' = params
    /\ IF filterThrowsLegacy(transactions, params.filterType)
       THEN /\ pc' = "failed"
            /\ UNCHANGED <<response, res>>
       ELSE /\ \E factors \in [1..paddingDraws(transactions, params.dataGrouping,
                                                params.filterType, query) -> RandomFactors] :
                   response' =
                       [kind |-> "chart", summary |-> "", type |-> params.visualizationType,
                        data |-> processTransactionsForVisualizationLegacy(transactions,
                                     params.dataGrouping, params.filterType, query, factors),
                        options |-> [title |-> params.title, xAxis |-> params.xAxis,
                                     yAxis |-> params.yAxis, colors |-> params.colors]]
            /\ res' = <<[data |-> [type |-> response'.type, data |-> response'.data,
                                   options |-> response'.options]]>>
            /\ pc' = "done"
    /\ UNCHANGED <<rev, store, query, results, transactions, analysisPrompt, clock>> /\ UNCHANGED firstVars /\ UNCHANGED handlerVars

FinanceLegacyRetrieve ==
    /\ rev = "finance_legacy" /\ pc = "retrieving"
    /\ results' = slice0(store, TopKFinance)
    /\ transactions' = extractFinanceLegacy(results')
    /\ response' = [NoResponse EXCEPT !.kind = "summary",
                                      !.summary = financeSummaryLegacy(transactions').summary]
    /\ pc' = "done"
    /\ UNCHANGED <<rev, store, query, vizParams, analysisPrompt, res, clock>> /\ UNCHANGED firstVars /\ UNCHANGED handlerVars

\* The first revision renders the hits as it walks them and keeps no list.
FinanceFirstRetrieve ==
    /\ rev = "finance_first" /\ pc = "retrieving"
    /\ results' = slice0(store, TopKFinanceFirst)
    /\ response' = [NoResponse EXCEPT !.kind = "summary",
                                      !.summary = financeSummaryFirst(results').summary]
    /\ pc' = "done"
    /\ UNCHANGED <<rev, store, query, transactions, vizParams, analysisPrompt, res, clock>> /\ UNCHANGED firstVars /\ UNCHANGED handlerVars

\* A failure of the call answered with a chart of what was extracted.
CallFailsPartial ==
    /\ pc \in {"retrieving", "generating"}
    /\ pc' = "failed"
    /\ response' = [ErrorResponse EXCEPT
                       !.data = processTransactionsForVisualization(transactions, "by_category",
                                                                    "all", query, <<>>)]
    /\ UNCHANGED <<rev, store, query, results, transactions, vizParams, analysisPrompt,
                   res, clock>> /\ UNCHANGED firstVars /\ UNCHANGED handlerVars

\* embed(), pineconeVector.query() or generateObject() rejects (generateObject
\* also when the object does not match the schema): nothing catches it, the
\* tool call fails and getVisualizeAgentResponse never reaches res.json.
CallFails ==
    /\ pc \in {"retrieving", "generating"}
    /\ pc' = "failed"
    /\ response' = ErrorResponse
    /\ UNCHANGED <<rev, store, query, results, transactions, vizParams, analysisPrompt,
                   res, clock>> /\ UNCHANGED firstVars /\ UNCHANGED handlerVars

\* Time passes: a later call of new Date() reads a later day.
Tick ==
    /\ \E i \in 1..(Len(Days) - 1) : clock = Days[i] /\ clock' = Days[i + 1]
    /\ UNCHANGED <<rev, store, pc, query, results, transactions, vizParams, response,
                   analysisPrompt, res>> /\ UNCHANGED firstVars /\ UNCHANGED handlerVars

Next ==
    \/ \E q \in FinanceQueries : Request(q)
    \/ VisualizeRetrieve
    \/ \E params \in ChartParameters : VisualizeGenerate(params)
    \/ FinanceRetrieve
    \/ VisualizeLegacyRetrieve
    \/ \E params \in LegacyChartParameters : VisualizeLegacyGenerate(params)
    \/ FinanceLegacyRetrieve
    \/ FinanceFirstRetrieve
    \/ CallFails
    \/ Tick

Spec == Init /\ [][Next]_vars

----------------------------------------------------------------------------
(* The first revision of the finance tool with its calls in flight together *)

InitFirst ==
    /\ rev = "finance_first"
    /\ store = <<>>
    /\ pc = "idle"
    /\ query = ""
    /\ results = <<>>
    /\ transactions = <<>>
    /\ vizParams = NoParameters
    /\ response = NoResponse
    /\ analysisPrompt = NoPrompt
    /\ res = <<>>
    /\ clock = Days[1]
    /\ isInitialized = FALSE
    /\ calls = [r \in Callers |-> NoCall]
    /\ inits = [r \in Callers |-> NoRun]
    /\ steps = <<>>
    /\ handler = NoHandler

\* getFinanceData up to its first await: initializeFinanceData() is called and
\* not awaited; it returns at once when isInitialized, else it runs up to its
\* own first await.
FirstCall(r, q) ==
    /\ calls[r].pc = "idle"
    /\ calls' = [calls EXCEPT ![r] = [NoCall EXCEPT !.pc = "embedding", !.query = q]]
    /\ inits' = [inits EXCEPT ![r] = IF isInitialized THEN [NoRun EXCEPT !.stage = "skipped"]
                                     ELSE [NoRun EXCEPT !.stage = "user"]]
    /\ UNCHANGED <<store, isInitialized>> /\ UNCHANGED mainVars /\ UNCHANGED handlerVars

\* embed() answers.
FirstEmbedded(r) ==
    /\ calls[r].pc = "embedding"
    /\ calls' = [calls EXCEPT ![r].pc = "querying"]
    /\ UNCHANGED <<store, isInitialized, inits>> /\ UNCHANGED mainVars /\ UNCHANGED handlerVars

\* pineconeVector.query answers and getFinanceData runs to its return.
FirstQueried(r) ==
    /\ calls[r].pc = "querying"
    /\ calls' = [calls EXCEPT ![r].pc = "done",
                              ![r].results = slice0(store, TopKFinanceFirst),
                              ![r].summary =
                                  financeSummaryFirst(slice0(store, TopKFinanceFirst)).summary]
    /\ UNCHANGED <<store, isInitialized, inits>> /\ UNCHANGED mainVars /\ UNCHANGED handlerVars

\* embed() or pineconeVector.query() rejects.
FirstCallFails(r) ==
    /\ calls[r].pc \in {"embedding", "querying"}
    /\ calls' = [calls EXCEPT ![r].pc = "failed"]
    /\ UNCHANGED <<store, isInitialized, inits>> /\ UNCHANGED mainVars /\ UNCHANGED handlerVars

\* The stage of initializeFinanceData after the current one.
afterStage(run) ==
    IF run.stage = "user" THEN [run EXCEPT !.stage = "totals"]
    ELSE IF run.stage = "totals"
    THEN [run EXCEPT !.stage = IF batchCount = 0 THEN "finishing" ELSE "batches"]
    ELSE IF run.index + 1 < batchCount THEN [run EXCEPT !.index = run.index + 1]
    ELSE [run EXCEPT !.stage = "finishing"]

\* What the current stage upserts.
stageRecord(run) ==
    IF run.stage = "user" THEN userRecord
    ELSE IF run.stage = "totals" THEN totalsRecord
    ELSE batchRecord(run.index)

\* embedMany and pineconeVector.upsert of the current stage answer.
InitUpserts(r) ==
    /\ inits[r].stage \in {"user", "totals", "batches"}
    /\ store' = Append(store, stageRecord(inits[r]))
    /\ inits' = [inits EXCEPT ![r] = afterStage(inits[r])]
    /\ UNCHANGED <<isInitialized, calls>> /\ UNCHANGED mainVars /\ UNCHANGED handlerVars

\* embedMany or upsert of the current stage rejects: caught and logged.
InitStageFails(r) ==
    /\ inits[r].stage \in {"user", "totals", "batches"}
    /\ inits' = [inits EXCEPT ![r] = afterStage(inits[r])]
    /\ UNCHANGED <<store, isInitialized, calls>> /\ UNCHANGED mainVars /\ UNCHANGED handlerVars

\* The loop over the batches is over.
InitFinishes(r) ==
    /\ inits[r].stage = "finishing"
    /\ isInitialized' = TRUE
    /\ inits' = [inits EXCEPT ![r].stage = "done"]
    /\ UNCHANGED <<store, calls>> /\ UNCHANGED mainVars /\ UNCHANGED handlerVars

NextFirst ==
    \/ \E r \in Callers, q \in FirstQueries : FirstCall(r, q)
    \/ \E r \in Callers : FirstEmbedded(r)
    \/ \E r \in Callers : FirstQueried(r)
    \/ \E r \in Callers : FirstCallFails(r)
    \/ \E r \in Callers : InitUpserts(r)
    \/ \E r \in Callers : InitStageFails(r)
    \/ \E r \in Callers : InitFinishes(r)

SpecFirst == InitFirst /\ [][NextFirst]_vars

----------------------------------------------------------------------------
(* The HTTP handler of the finance agent *)

MaxSteps == 3

StepTypes == {"initial", "continue", "tool-result"}
StepTexts == {"Found 2 relevant transactions", ""}

\* The lists of steps financeAgent.generate may resolve with.
AgentSteps ==
    UNION {[1..n -> [stepType : StepTypes, text : StepTexts]] : n \in 0..MaxSteps}

FallbackBody == [message |-> "Omor something went wrong broski"]

\* The bodies the handler passes to res.json when nothing stops it: one per
\* tool-result step, the `return` leaving only the callback of forEach, and
\* then the fallback.
jsonBodies(agentSteps) ==
    [i \in 1..Len(SelectSeq(agentSteps, LAMBDA step : step.stepType = "tool-result")) |->
        [data |-> SelectSeq(agentSteps, LAMBDA step : step.stepType = "tool-result")[i].text]]
    \o <<FallbackBody>>

\* res.json on a response that has been sent throws (the headers are sent):
\* the handler gets as far as its second call.
jsonCalls(agentSteps) == slice0(jsonBodies(agentSteps), 2)

InitHandler ==
    /\ rev = "finance"
    /\ store = <<>>
    /\ pc = "idle"
    /\ query = ""
    /\ results = <<>>
    /\ transactions = <<>>
    /\ vizParams = NoParameters
    /\ response = NoResponse
    /\ analysisPrompt = NoPrompt
    /\ res = <<>>
    /\ clock = Days[1]
    /\ isInitialized = TRUE
    /\ calls = [r \in Callers |-> NoCall]
    /\ inits = [r \in Callers |-> NoRun]
    /\ steps = <<>>
    /\ handler = NoHandler

\* The route calls getFinanceAgentResponse, which awaits financeAgent.generate.
HandlerRequest(q) ==
    /\ handler.pc \in {"idle", "returned", "threw"}
    /\ query' = q
    /\ steps' = <<>>
    /\ res' = <<>>
    /\ handler' = [pc |-> "generating", calls |-> <<>>]
    /\ UNCHANGED <<rev, store, pc, results, transactions, vizParams, response,
                   analysisPrompt, clock>> /\ UNCHANGED firstVars

\* financeAgent.generate resolves and the handler runs to its end: the first
\* res.json sends its body, a second one throws and the promise of the
\* handler, which the route dropped, rejects.
HandlerResumes(agentSteps) ==
    /\ handler.pc = "generating"
    /\ steps' = agentSteps
    /\ res' = <<jsonCalls(agentSteps)[1]>>
    /\ handler' = [pc |-> IF Len(jsonCalls(agentSteps)) > 1 THEN "threw" ELSE "returned",
                   calls |-> jsonCalls(agentSteps)]
    /\ UNCHANGED <<rev, store, pc, query, results, transactions, vizParams, response,
                   analysisPrompt, clock>> /\ UNCHANGED firstVars

\* financeAgent.generate rejects: nothing catches it, res.json is not reached.
HandlerGenerateFails ==
    /\ handler.pc = "generating"
    /\ handler' = [handler EXCEPT !.pc = "threw"]
    /\ UNCHANGED <<rev, store, pc, query, results, transactions, vizParams, response,
                   analysisPrompt, res, clock, steps>> /\ UNCHANGED firstVars

NextHandler ==
    \/ \E q \in FinanceQueries : HandlerRequest(q)
    \/ \E agentSteps \in AgentSteps : HandlerResumes(agentSteps)
    \/ HandlerGenerateFails

SpecHandler == InitHandler /\ [][NextHandler]_vars

----------------------------------------------------------------------------
(* Properties *)

\* The extraction loop of the request has run (the first revision of the
\* finance tool has none).
Extracted == pc \in {"generating", "done"} /\ rev # "finance_first"

Unscored(t) == [t EXCEPT !.relevanceScore = NoScore, !._score = NoScore]

\* The hit's metadata text is JSON.
Parsable(hit) == hit.hasText /\ hit.text.valid

\* The values of the transactions collection of a parsed hit.
ValuesOf(hit) ==
    IF Parsable(hit) /\ hit.text.value.json = "object" /\ hit.text.value.hasTransactions
    THEN hit.text.value.transactions
    ELSE <<>>

\* The keep test of the revision that serves the request.
Keeps(t) ==
    CASE rev = "visualize" -> keepVisualization(t)
      [] rev = "visualize_legacy" -> keepVisualizationLegacy(t)
      [] OTHER -> keepFinance(t)

\* C1: extraction never throws on a hit whose metadata text is not JSON: the
\* loop runs to the end of the batch whatever the hits hold. Afterwards every
\* extracted record is a value of a hit that parsed, none comes from a hit that
\* did not, every value of a parsed hit that passes the keep test is present
\* (as many records as there are such values), and a batch with no parsable hit
\* yields the empty list.
C1_BadJsonIsSkipped ==
    Extracted =>
    /\ \A i \in 1..Len(transactions) :
          \E h \in 1..Len(results) : \E j \in 1..Len(ValuesOf(results[h])) :
              ValuesOf(results[h])[j] = Unscored(transactions[i])
    /\ \A h \in 1..Len(results) : \A j \in 1..Len(ValuesOf(results[h])) :
          Keeps(ValuesOf(results[h])[j]) =>
              \E i \in 1..Len(transactions) :
                  Unscored(transactions[i]) = ValuesOf(results[h])[j]
    /\ Len(transactions) =
          Len(flatten([h \in 1..Len(results) |-> filter(ValuesOf(results[h]), Keeps)]))
    /\ (\A h \in 1..Len(results) : ~Parsable(results[h])) => transactions = <<>>

\* C1 witness: a batch that mixes a hit whose text is not JSON, placed first,
\* with a parsed hit whose records were extracted.
C1_Witness ==
    /\ Extracted /\ Len(results) = 2
    /\ results[1].hasText /\ ~results[1].text.valid
    /\ Len(transactions) > 0

\* The values of the parsed hits that satisfy `kept`, in retrieval order, each
\* with the score of its hit.
ExpectedRecords(kept(_)) ==
    flatten([h \in 1..Len(results) |->
        LET values == filter(ValuesOf(results[h]), kept)
        IN  [j \in 1..Len(values) |-> [tx |-> values[j], score |-> results[h].score]]])

AttachedScore(t) == IF t.relevanceScore.has THEN t.relevanceScore ELSE t._score

Dated(t) == t.json = "object" /\ t.date # ""

\* C2 as stated: a value of a parsed hit is kept if and only if it has a
\* non-empty date, the kept record carries the score of its hit, and the kept
\* records are in retrieval order.
C2_KeptIffDated ==
    Extracted =>
        LET expected == ExpectedRecords(Dated)
        IN  /\ Len(transactions) = Len(expected)
            /\ \A i \in 1..Len(expected) :
                  /\ Unscored(transactions[i]) = expected[i].tx
                  /\ expected[i].score.has => AttachedScore(transactions[i]) = expected[i].score

\* C2 amended: the finance tool keeps exactly the values with a non-empty date;
\* the visualization tool also requires a truthy amount and one of type,
\* category, description (its earlier revision: a type and a description). The
\* current revisions attach the hit's score (the visualization tool 0 when the
\* hit has none), the earlier ones attach nothing; retrieval order is kept.
C2_KeptPerExtractor ==
    Extracted =>
        LET wanted(t) ==
                /\ Dated(t)
                /\ rev = "visualize" =>
                      /\ truthy(t.amount)
                      /\ (t.type # "" \/ t.category # "" \/ t.description # "")
                /\ rev = "visualize_legacy" =>
                      truthy(t.amount) /\ t.type # "" /\ t.description # ""
            expected == ExpectedRecords(wanted)
        IN  /\ Len(transactions) = Len(expected)
            /\ \A i \in 1..Len(expected) :
                  /\ Unscored(transactions[i]) = expected[i].tx
                  /\ rev = "finance" =>
                        /\ transactions[i]._score = expected[i].score
                        /\ ~transactions[i].relevanceScore.has
                  /\ rev = "visualize" =>
                        /\ transactions[i].relevanceScore =
                              (IF expected[i].score.has THEN expected[i].score ELSE Score(0))
                        /\ ~transactions[i]._score.has
                  /\ rev \in {"visualize_legacy", "finance_legacy"} =>
                        transactions[i] = expected[i].tx

\* C2 witness: the visualization tool has extracted records from a parsed hit
\* and left out a value of it that has a date but a zero amount.
C2_Witness ==
    /\ Extracted /\ rev = "visualize" /\ Len(transactions) > 0
    /\ \E h \in 1..Len(results) : \E j \in 1..Len(ValuesOf(results[h])) :
          LET v == ValuesOf(results[h])[j]
          IN  /\ Dated(v) /\ ~truthy(v.amount)
              /\ \A i \in 1..Len(transactions) : Unscored(transactions[i]) # v

\* The visualization request has returned its chart.
Charted == pc = "done" /\ rev \in {"visualize", "visualize_legacy"}

\* What the filter mode of the request selects among the extracted records,
\* before any fallback.
Prefiltered ==
    IF rev = "visualize"
    THEN filterTransactionsByQuery(transactions, query, vizParams.queryKeywords,
                                   vizParams.filterType)
    ELSE filterByTypeLegacy(transactions, vizParams.filterType)

\* The charts of every extracted record, grouped as the request asks.
FullCharts ==
    IF rev = "visualize"
    THEN {processTransactionsForVisualization(transactions, vizParams.dataGrouping,
                                              "all", "", <<>>)}
    ELSE {processTransactionsForVisualizationLegacy(transactions, vizParams.dataGrouping,
                                                    "all", query, factors) :
             factors \in [1..paddingDraws(transactions, vizParams.dataGrouping, "all", query)
                            -> RandomFactors]}

\* C3: leniency rule. In the visualization pipeline, under every filter mode,
\* when the filter leaves fewer than 3 records and at least 6 were extracted,
\* the chart is the chart of all the extracted records.
C3_LeniencyInEveryMode ==
    (Charted /\ Len(Prefiltered) < 3 /\ Len(transactions) >= 6) => response.data \in FullCharts

\* C4: when the filter leaves no record and the leniency rule does not apply,
\* the visualization request returns the "no valid transactions" message and no
\* chart payload with an empty data list.
C4_NoRecordsGivesMessage ==
    (Charted /\ Len(Prefiltered) = 0 /\ Len(transactions) < 6) =>
        /\ response.kind = "summary"
        /\ response.summary = NoValidMessage
        /\ response.data = <<>>

\* The summary request has returned.
Summarized == pc = "done" /\ rev \in {"finance", "finance_legacy", "finance_first"}

\* The records the summary is rendered from, in rendering order.
SummaryCandidates ==
    CASE rev = "finance" ->
            slice0(sortBy(filter(transactions,
                                 LAMBDA t : passesRelevance(t, queryTerms(query))),
                          newerFirst),
                   20)
      [] rev = "finance_legacy" -> slice0(sortBy(transactions, newerFirst), 20)
      [] OTHER -> flatten([h \in 1..Len(results) |-> ValuesOf(results[h])])

\* The record has every field the rendering requires.
Complete(t) ==
    /\ t.json = "object" /\ t.date # ""
    /\ t.amount.kind # "undefined" /\ t.amount # Num(0) /\ t.amount # Str("")
    /\ t.currencyCode # "" /\ t.description # "" /\ t.category # ""
    /\ t.type # "" /\ t.topLevelCategory # ""

Survivors == filter(SummaryCandidates, Complete)

\* The text s begins with p.
StartsWith(s, p) == Len(p) <= Len(s) /\ SubSeq(s, 1, Len(p)) = p

\* The lines under the header of the summary.
SummaryLines ==
    IF StartsWith(response.summary, "Found ") THEN Tail(split(response.summary, "\n"))
    ELSE <<>>

\* Every line is the line of a transaction, and there is one.
HasBody(lines) ==
    Len(lines) > 0 /\ \A i \in 1..Len(lines) : StartsWith(lines[i], "- Date: ")

\* C5: in the summary path, when no transaction survives extraction, filtering
\* and the required-field check, the summary is exactly the fixed no-data
\* message; a summary that starts with the "Found" header always has a
\* transaction line under it.
C5_NoDataMessage ==
    Summarized =>
        /\ Survivors = <<>> =>
              response.summary = (IF rev = "finance" THEN NoMatchMessage ELSE NoValidMessage)
        /\ StartsWith(response.summary, "Found") => HasBody(SummaryLines)

\* C5 witness: records were extracted and passed the relevance filter, none of
\* them has every required field, and the summary is the no-data message.
C5_Witness ==
    /\ Summarized /\ rev = "finance"
    /\ Len(SummaryCandidates) > 0 /\ Survivors = <<>>
    /\ response.summary = NoMatchMessage

\* The sum of the absolute values of the amounts, an amount that is not a
\* number counting as 0.
RECURSIVE SumOfAbsolutes(_)
SumOfAbsolutes(txs) ==
    IF txs = <<>> THEN 0
    ELSE LET n == Number(Head(txs).amount)
         IN  (IF n.nan THEN 0 ELSE IF n.val < 0 THEN 0 - n.val ELSE n.val)
             + SumOfAbsolutes(Tail(txs))

\* The buckets of the request of the current revision.
Buckets == groupTransactions(Prefiltered, vizParams.dataGrouping)

\* The records the earlier revision groups, and those of one label.
GroupedLegacy == filterLegacy(transactions, vizParams.filterType)

MembersLegacy(label) ==
    filter(GroupedLegacy, LAMBDA t :
        capitalizeLabelLegacy(groupKeyLegacy(t, vizParams.dataGrouping)) = label)

\* The members of every bucket are the grouped records of its key, and its
\* total is the sum of their absolute amounts.
TotalsAddUp(buckets, grouped, groupingMethod) ==
    \A i \in 1..Len(buckets) :
        /\ buckets[i].transactions =
              filter(grouped, LAMBDA t : groupKey(t, groupingMethod) = buckets[i].key)
        /\ buckets[i].totalAmount = SumOfAbsolutes(buckets[i].transactions)
        /\ buckets[i].totalAmount >= 0

\* The entries of the buckets, their values computed anew from the members.
EntriesAnew(buckets) ==
    [i \in 1..Len(buckets) |->
        [label |-> capitalizeLabel(buckets[i].key),
         value |-> SumOfAbsolutes(buckets[i].transactions),
         date |-> buckets[i].mostRecentDate]]

TotalsAddUpLegacy(entries, data) ==
    \A i \in 1..Len(entries) :
        /\ entries[i].value = SumOfAbsolutes(MembersLegacy(entries[i].label))
        /\ entries[i].value >= 0
        /\ \E k \in 1..Len(data) : data[k] = entries[i]

\* C6: for every bucket produced by grouping, totalAmount is the sum of the
\* absolute values of the amounts of its member records (an amount that does
\* not coerce to a number counts as 0), hence never negative; the chart reports
\* that total as the value of the bucket's entry.
C6_TotalIsSumOfAbsolutes ==
    /\ (Charted /\ rev = "visualize") =>
          /\ TotalsAddUp(Buckets, Prefiltered, vizParams.dataGrouping)
          /\ response.data = sortBy(EntriesAnew(Buckets), higherValue)
    /\ (Charted /\ rev = "visualize_legacy") =>
          TotalsAddUpLegacy(groupLegacy(transactions, vizParams.dataGrouping,
                                        vizParams.filterType),
                            response.data)

MixedAmounts(buckets) ==
    \E i \in 1..Len(buckets) :
        /\ \E k \in 1..Len(buckets[i].transactions) :
              Number(buckets[i].transactions[k].amount).nan
        /\ \E k \in 1..Len(buckets[i].transactions) :
              /\ ~Number(buckets[i].transactions[k].amount).nan
              /\ Number(buckets[i].transactions[k].amount).val < 0

\* C6 witness: a chart with a bucket whose members include a negative amount
\* and an amount that is not a number.
C6_Witness == Charted /\ rev = "visualize" /\ MixedAmounts(Buckets)

Reverse(seq) == [i \in 1..Len(seq) |-> seq[Len(seq) + 1 - i]]

\* The date is the greatest of the dates of the records, as strings.
GreatestDate(date, txs) ==
    /\ \E k \in 1..Len(txs) : txs[k].date = date
    /\ \A k \in 1..Len(txs) : ~StrLess(date, txs[k].date)

DatesAreGreatest(buckets, backwards, data) ==
    /\ \A i \in 1..Len(buckets) :
          /\ GreatestDate(buckets[i].mostRecentDate, buckets[i].transactions)
          /\ \E k \in 1..Len(data) :
                /\ data[k].label = capitalizeLabel(buckets[i].key)
                /\ data[k].date = buckets[i].mostRecentDate
          /\ \E j \in 1..Len(backwards) :
                /\ backwards[j].key = buckets[i].key
                /\ backwards[j].mostRecentDate = buckets[i].mostRecentDate
    /\ Len(backwards) = Len(buckets)

GreatestInTheMiddle(buckets) ==
    \E i \in 1..Len(buckets) :
        /\ Len(buckets[i].transactions) >= 3
        /\ buckets[i].transactions[1].date # buckets[i].mostRecentDate
        /\ buckets[i].transactions[Len(buckets[i].transactions)].date
              # buckets[i].mostRecentDate

IdempotentOn(once) == findRecurringTransactions(once) = once

IdempotentInlineOn(once) == findRecurringInline(once) = once

\* C8: the recurring filter is idempotent. Applied to its own output it
\* returns the same list as applied once: once the records are extracted, on
\* the records and on what every type filter leaves of them, and in the
\* request that applies it twice (filter recurring_only with a query that says
\* "recurring").
C8_RecurringFilterIdempotent ==
    /\ (pc = "generating" /\ rev = "visualize") =>
          \A filterType \in FilterTypes :
              IdempotentOn(findRecurringTransactions(
                               filterTransactionsByType(transactions, filterType)))
    /\ (pc = "generating" /\ rev = "visualize_legacy") =>
          \A filterType \in FilterTypes :
              IdempotentInlineOn(findRecurringInline(
                                     filterByTypeLegacy(transactions, filterType)))
    /\ (Charted /\ rev = "visualize" /\ vizParams.filterType = "recurring_only"
           /\ vizParams.queryKeywords = <<>>) =>
          response.data =
              sortBy(entriesOf(groupTransactions(findRecurringTransactions(transactions),
                                                 vizParams.dataGrouping)),
                     higherValue)

\* C8 witness: a request that applies the recurring filter twice, to records
\* of which it keeps some and drops others.
C8_Witness ==
    /\ Charted /\ rev = "visualize" /\ vizParams.filterType = "recurring_only"
    /\ vizParams.queryKeywords = <<>>
    /\ includes(toLowerCase(query), "recurring")
    /\ Len(findRecurringTransactions(transactions)) > 0
    /\ Len(findRecurringTransactions(transactions)) < Len(transactions)

\* The records of scenario A.
ScenarioA(txs) ==
    /\ Len(txs) = 2
    /\ \A i \in 1..2 : /\ txs[i].category = "Food" /\ txs[i].type = "expense"
                       /\ txs[i].amount = Num(-50)
    /\ txs[1].date = "2024-01-05" /\ txs[2].date = "2024-01-20"

\* C9: scenario A. Two expense records of category "Food" with amount -50
\* each, dated 2024-01-05 and 2024-01-20, grouped by_category with filter all
\* and no keywords, give exactly one entry: label "Food", value 100, date
\* "2024-01-20".
C9_ScenarioA ==
    (/\ Charted /\ rev = "visualize" /\ ScenarioA(transactions)
     /\ vizParams.dataGrouping = "by_category" /\ vizParams.filterType = "all"
     /\ vizParams.queryKeywords = <<>>) =>
        response.data = <<[label |-> "Food", value |-> 100, date |-> "2024-01-20"]>>

\* C9 witness: the chart of scenario A has been returned.
C9_Witness ==
    /\ Charted /\ rev = "visualize" /\ ScenarioA(transactions)
    /\ vizParams.dataGrouping = "by_category" /\ vizParams.filterType = "all"
    /\ vizParams.queryKeywords = <<>>
    /\ Len(response.data) = 1

\* One line for each of the records, in their order.
RenderedInOrder(lines, records) ==
    /\ Len(lines) = Len(records)
    /\ \A i \in 1..Len(records) :
          StartsWith(lines[i],
              "- Date: " \o records[i].date \o ", Amount: "
              \o toText(records[i].amount) \o " " \o records[i].currencyCode
              \o ", Description: " \o records[i].description
              \o ", Category: " \o records[i].category \o ", User: ")

\* C10: in the summary path, a transaction that lacks a required field is left
\* out of the rendered summary and the request still succeeds: the request
\* returns a summary, with one line for each record that has every required
\* field (date, amount, type, description and category among them), in
\* rendering order, and no line for any other record.
C10_IncompleteRecordsLeftOut ==
    Summarized =>
        /\ response.kind = "summary"
        /\ response.summary # ""
        /\ RenderedInOrder(SummaryLines, Survivors)

LacksCategory(records) ==
    \E i \in 1..Len(records) :
        records[i].json = "object" /\ records[i].date # "" /\ records[i].category = ""

\* C10 witness: a summary with lines, rendered from records of which one lacks
\* a required field.
C10_Witness ==
    /\ Summarized /\ Len(SummaryLines) > 0
    /\ LacksCategory(SummaryCandidates)

----------------------------------------------------------------------------
\* The visualization request is waiting for generateObject.
Generating == pc = "generating" /\ rev \in {"visualize", "visualize_legacy"}

\* generateObject was called and the request failed.
GenerationFailed ==
    pc = "failed" /\ rev \in {"visualize", "visualize_legacy"} /\ analysisPrompt # NoPrompt

\* The step that ends the wait for generateObject either returns the full chart
\* of the generated parameters or fails with nothing returned and nothing
\* written to the HTTP response.
GenerationEnds ==
    (Generating /\ pc' # "generating") =>
        \/ /\ pc' = "done"
           /\ vizParams' \in ChartParameters
           /\ response'.kind = "chart"
           /\ res' = <<[data |-> [type |-> response'.type, data |-> response'.data,
                                  options |-> response'.options]]>>
        \/ /\ pc' = "failed"
           /\ response' = ErrorResponse
           /\ vizParams' = NoParameters
           /\ res' = <<>>

\* A failed request takes no further step: only a new request follows it.
NoRetry == GenerationFailed => (pc' = "failed" \/ (pc' = "retrieving" /\ res' = <<>>))

\* C11: when the chart-parameter generation fails, the visualization request
\* ends in an error: no chart payload, not even a partial one, is returned or
\* written to the response, and generateObject is not called again for the
\* request.
C11_GenerationFailureIsFatal ==
    /\ [](GenerationFailed => (response = ErrorResponse /\ res = <<>>))
    /\ [][GenerationEnds /\ NoRetry]_vars

\* C11 witness: generateObject failed on a request that had extracted records.
C11_Witness == GenerationFailed /\ analysisPrompt.transactions # <<>>

----------------------------------------------------------------------------
\* Two calls that have returned for the same query.
ReturnedAlike(r1, r2) ==
    calls[r1].pc = "done" /\ calls[r2].pc = "done" /\ calls[r1].query = calls[r2].query

\* C12: concurrent requests are independent. Two requests that returned for
\* the same query returned the same summary, whatever the interleaving of
\* their steps, and no request wrote to the store what another request wrote.
C12_RequestsAreIndependent ==
    /\ \A r1 \in Callers, r2 \in Callers :
          ReturnedAlike(r1, r2) => calls[r1].summary = calls[r2].summary
    /\ \A i \in 1..Len(store), j \in 1..Len(store) : store[i] = store[j] => i = j

----------------------------------------------------------------------------
\* The chart of the request's records and parameters, made again now.
ChartAgain ==
    processTransactionsForVisualization(transactions, vizParams.dataGrouping,
                                        vizParams.filterType, query, vizParams.queryKeywords)

\* The buckets of the request's records, made again now.
BucketsAgain(buckets) ==
    /\ Len(buckets) = Len(response.data)
    /\ \A i \in 1..Len(buckets) :
          \E k \in 1..Len(response.data) :
             /\ response.data[k].label = capitalizeLabel(buckets[i].key)
             /\ response.data[k].value = buckets[i].totalAmount
             /\ response.data[k].date = buckets[i].mostRecentDate

\* The earlier revision made no padding for the request.
Unpadded ==
    paddingDraws(transactions, vizParams.dataGrouping, vizParams.filterType, query) = 0

----------------------------------------------------------------------------
\* The number of places of a list that hold the record.
Occurrences(txs, t) == Cardinality({i \in 1..Len(txs) : txs[i] = t})

RECURSIVE InOrderOf(_, _)
\* The list out is the list txs with some of its places left out.
InOrderOf(out, txs) ==
    IF out = <<>> THEN TRUE
    ELSE IF txs = <<>> THEN FALSE
    ELSE IF Head(out) = Head(txs) THEN InOrderOf(Tail(out), Tail(txs))
    ELSE InOrderOf(out, Tail(txs))

PositiveNumber(amount) == amount.kind = "number" /\ amount.num > 0
NegativeNumber(amount) == amount.kind = "number" /\ amount.num < 0

\* The list out holds the records of txs of the wanted type or sign, each as
\* often as txs does, in the order of txs.
ExactlyThose(out, txs, type, Signed(_)) ==
    /\ InOrderOf(out, txs)
    /\ \A i \in 1..Len(txs) :
          Occurrences(out, txs[i]) =
              IF txs[i].type = type \/ Signed(txs[i].amount)
              THEN Occurrences(txs, txs[i]) ELSE 0

TypeFilterOn(txs, TypeFilter(_, _)) ==
    /\ ExactlyThose(TypeFilter(txs, "income_only"), txs, "income", PositiveNumber)
    /\ ExactlyThose(TypeFilter(txs, "expenses_only"), txs, "expense", NegativeNumber)
    /\ TypeFilter(txs, "all") = txs
    /\ TypeFilter(txs, "query_specific") = txs

\* C14: type filter. income_only gives exactly the records whose type is
\* "income" or whose amount is a positive number, expenses_only exactly those
\* whose type is "expense" or whose amount is a negative number, and "all" or
\* an unrecognized filterType gives the input, same records in the same order.
C14_TypeFilter ==
    /\ (Generating /\ rev = "visualize") =>
           TypeFilterOn(transactions, filterTransactionsByType)
    /\ (Generating /\ rev = "visualize_legacy") =>
           TypeFilterOn(transactions, filterByTypeLegacy)

\* C14 witness: the records filtered hold an income by type, a record of
\* another type with a positive amount, an expense by type whose amount is no
\* number, and a record without type with a negative amount.
C14_Witness ==
    /\ Generating /\ rev = "visualize"
    /\ \E i \in 1..Len(transactions) :
          transactions[i].type = "income"
    /\ \E i \in 1..Len(transactions) :
          transactions[i].type # "income" /\ PositiveNumber(transactions[i].amount)
    /\ \E i \in 1..Len(transactions) :
          transactions[i].type = "expense" /\ transactions[i].amount.kind # "number"
    /\ \E i \in 1..Len(transactions) :
          transactions[i].type # "expense" /\ NegativeNumber(transactions[i].amount)

----------------------------------------------------------------------------
\* The text k occurs in the text s.
IsSubstring(k, s) ==
    \E i \in 0..(Len(s) - Len(k)) : SubSeq(s, i + 1, i + Len(k)) = k

\* Some keyword, lower-cased, occurs in a lower-cased field of the record.
MentionsKeyword(t, keywords) ==
    \E k \in 1..Len(keywords) :
        \E field \in {t.description, t.category, t.merchant, t.type} :
            IsSubstring(toLowerCase(keywords[k]), toLowerCase(field))

\* The relevance score the sort compares.
RelevanceOf(t) == IF t.relevanceScore.has THEN t.relevanceScore.v ELSE 0

\* The survivors are the candidates that mention a keyword, each as often as
\* it is a candidate, highest relevance score first when one carries a score.
KeywordSurvivors(survivors, candidates, keywords) ==
    /\ \A i \in 1..Len(candidates) :
          Occurrences(survivors, candidates[i]) =
              IF MentionsKeyword(candidates[i], keywords)
              THEN Occurrences(candidates, candidates[i]) ELSE 0
    /\ \A i \in 1..Len(survivors) : MentionsKeyword(survivors[i], keywords)
    /\ (\E i \in 1..Len(survivors) : survivors[i].relevanceScore.has) =>
           \A i \in 1..Len(survivors), j \in 1..Len(survivors) :
               i < j => RelevanceOf(survivors[i]) >= RelevanceOf(survivors[j])

\* The request is a charted one of the current revision with keywords.
KeywordMode == Charted /\ rev = "visualize" /\ Len(vizParams.queryKeywords) > 0

\* The records the keyword filter is given and those it leaves.
KeywordCandidates == filterTransactionsByType(transactions, vizParams.filterType)
KeywordFiltered == filterByKeywords(KeywordCandidates, vizParams.queryKeywords)

\* Every member of every bucket mentions a keyword.
BucketsMention(buckets, keywords) ==
    \A i \in 1..Len(buckets) : \A k \in 1..Len(buckets[i].transactions) :
        MentionsKeyword(buckets[i].transactions[k], keywords)

\* C15: keyword mode. When the chart parameters carry a keyword, a record
\* survives the keyword filter if and only if some lower-cased keyword is a
\* substring of its lower-cased description, category, merchant or type, the
\* survivors are ordered by relevance score, highest first, when any of them
\* has one, and only survivors are charted.
C15_KeywordMode ==
    KeywordMode =>
        /\ KeywordSurvivors(KeywordFiltered, KeywordCandidates, vizParams.queryKeywords)
        /\ BucketsMention(Buckets, vizParams.queryKeywords)
        /\ BucketsAgain(Buckets)

\* The keyword filter dropped a record and moved a survivor ahead of a
\* survivor retrieved before it.
Reordered(survivors, candidates) ==
    /\ Len(survivors) < Len(candidates)
    /\ ~InOrderOf(survivors, candidates)

\* C15 witness: a charted keyword request whose filter dropped a record,
\* kept one by its description in another case than the keyword's, and
\* reordered the survivors by score.
C15_Witness ==
    /\ KeywordMode
    /\ Reordered(KeywordFiltered, KeywordCandidates)
    /\ \E i \in 1..Len(KeywordFiltered) : KeywordFiltered[i].description = " CAFE  "
    /\ response.data # <<>>

----------------------------------------------------------------------------
\* The summary of the current revision of the finance tool has been returned.
ScoredSummary == Summarized /\ rev = "finance"

\* The start of the line of a record, up to the user.
LineStart(t) ==
    "- Date: " \o t.date \o ", Amount: " \o toText(t.amount) \o " " \o t.currencyCode
    \o ", Description: " \o t.description \o ", Category: " \o t.category \o ", User: "

\* The attached score is not below the threshold of 0.7 (in hundredths).
ScoreNotBelow(t) == ~(t._score.has /\ t._score.v < 70)

\* A term of the query occurs in the lower-cased field.
TermIn(field, terms) ==
    field # "" /\ \E k \in 1..Len(terms) : IsSubstring(terms[k], toLowerCase(field))

\* The record matches the query by a term in its description, category or
\* top-level category, by its amount, or by a date token in its date.
MatchesQuery(t, terms) ==
    \/ TermIn(t.description, terms)
    \/ TermIn(t.category, terms)
    \/ TermIn(t.topLevelCategory, terms)
    \/ \E k \in 1..Len(terms) : amountMatches(t.amount, terms[k])
    \/ \E k \in 1..Len(terms) : isDateTerm(terms[k]) /\ TermIn(t.date, <<terms[k]>>)

\* The lines that start as the line of the record does.
LinesOf(lines, t) == Cardinality({i \in 1..Len(lines) : StartsWith(lines[i], LineStart(t))})

\* The records entitled to a line that starts as the line of the record does.
EntitledLike(txs, t, terms) ==
    Cardinality({i \in 1..Len(txs) :
        /\ LineStart(txs[i]) = LineStart(t)
        /\ Complete(txs[i]) /\ ScoreNotBelow(txs[i]) /\ MatchesQuery(txs[i], terms)})

\* Every line of the summary is the line of an extracted record, and a record
\* has as many lines as there are records like it whose score is not below the
\* threshold and that match the query.
OnlyScoredMatches(lines, txs, terms) ==
    /\ \A i \in 1..Len(lines) : \E k \in 1..Len(txs) : StartsWith(lines[i], LineStart(txs[k]))
    /\ \A k \in 1..Len(txs) : LinesOf(lines, txs[k]) = EntitledLike(txs, txs[k], terms)

\* C16: score-threshold mode of the summary path. No record whose attached
\* similarity score is below 0.7 appears in the summary, and every record that
\* appears matches the query by a description, category or top-level category
\* term, by its amount or by a date token.
C16_ScoreThreshold ==
    ScoredSummary => OnlyScoredMatches(SummaryLines, transactions, queryTerms(query))

\* C16 witness: a summary with lines, from records of which one matches the
\* query but has a score below the threshold and one has a score above it but
\* does not match the query.
C16_Witness ==
    /\ ScoredSummary /\ Len(SummaryLines) > 0
    /\ \E k \in 1..Len(transactions) :
          /\ Complete(transactions[k]) /\ ~ScoreNotBelow(transactions[k])
          /\ MatchesQuery(transactions[k], queryTerms(query))
          /\ LinesOf(SummaryLines, transactions[k]) = 0
    /\ \E k \in 1..Len(transactions) :
          /\ Complete(transactions[k]) /\ ScoreNotBelow(transactions[k])
          /\ ~MatchesQuery(transactions[k], queryTerms(query))

----------------------------------------------------------------------------
\* The term is a number as written: a sign or none, digits, and a point with
\* digits or none.
Unsigned(term) == IF term # "" /\ Head(term) = "-" THEN Tail(term) ELSE term

WholePart(term) == leadingDigits(Unsigned(term))

FractionPart(term) ==
    IF Len(WholePart(term)) + 1 < Len(Unsigned(term))
          /\ CharAt(Unsigned(term), Len(WholePart(term)) + 1) = "."
    THEN SubSeq(Unsigned(term), Len(WholePart(term)) + 2, Len(Unsigned(term)))
    ELSE ""

IsNumber(term) ==
    /\ WholePart(term) # ""
    /\ \/ Unsigned(term) = WholePart(term)
       \/ /\ FractionPart(term) # "" /\ AllDigits(FractionPart(term))
          /\ Unsigned(term) = WholePart(term) \o "." \o FractionPart(term)

\* The number of the term times the power of ten that makes it an integer.
ScaledNumber(term) ==
    (IF Head(term) = "-" THEN -1 ELSE 1)
        * DigitsValue(WholePart(term) \o FractionPart(term), 0)

\* The amount of the record is a number within 5 units of the term's number.
WithinTolerance(amount, term) ==
    /\ IsNumber(term) /\ amount.kind = "number"
    /\ Abs(amount.num * pow10(Len(FractionPart(term))) - ScaledNumber(term))
          <= 5 * pow10(Len(FractionPart(term)))

\* Every record whose score passes the threshold and whose amount is within
\* the tolerance of a numeric term of the query passes the filter.
AmountMatchesKept(txs, terms) ==
    \A k \in 1..Len(txs) :
        (/\ ScoreNotBelow(txs[k])
         /\ \E i \in 1..Len(terms) : WithinTolerance(txs[k].amount, terms[i]))
            => passesRelevance(txs[k], terms)

\* C17: amount match in score-threshold mode. A record whose score passes the
\* threshold is kept whenever some query term is a number whose absolute
\* difference from the record's amount is within 5 units, for every amount,
\* negative amounts and zero included.
C17_AmountMatch ==
    ScoredSummary => AmountMatchesKept(transactions, queryTerms(query))

----------------------------------------------------------------------------
\* The entries of the earlier revision's buckets, before any padding.
BucketEntries == groupLegacy(transactions, vizParams.dataGrouping, vizParams.filterType)

\* Fewer than 3 buckets remain and the query contains "recurring".
PaddingDue(buckets) == Len(buckets) < 3 /\ IsSubstring("recurring", toLowerCase(query))

\* The entry is one of the buckets' entries.
IsBucket(entry, buckets) == \E i \in 1..Len(buckets) : buckets[i] = entry

\* The entry has the label and date of the first bucket and a value within 30%
\* of the first bucket's value.
FromFirstBucket(entry, first) ==
    /\ StartsWith(entry.label, first.label)
    /\ entry.date = first.date
    /\ 10 * entry.value >= 7 * first.value
    /\ 10 * entry.value <= 13 * first.value

\* The output holds every bucket's entry unchanged; when padding is due it has
\* exactly 5 entries and the others are made from the first bucket, else it
\* has the buckets' entries only.
PaddedFrom(data, buckets) ==
    /\ \A i \in 1..Len(buckets) : \E k \in 1..Len(data) : data[k] = buckets[i]
    /\ Len(data) = IF PaddingDue(buckets) THEN 5 ELSE Len(buckets)
    /\ Len(buckets) > 0 =>
          \A k \in 1..Len(data) :
              IsBucket(data[k], buckets) \/ FromFirstBucket(data[k], buckets[1])

\* C19: synthetic padding of the earlier visualization revision. Padding
\* happens exactly when fewer than 3 buckets remain and the query contains
\* "recurring"; the output then has exactly 5 entries, every synthetic entry
\* has the label and date of the first bucket and a value within 30% of the
\* first bucket's value, and the buckets' entries are unchanged.
C19_SyntheticPadding ==
    (Charted /\ rev = "visualize_legacy") => PaddedFrom(response.data, BucketEntries)

\* The first n records of the extracted ones, in their order, and no more.
FirstOf(sample, records, n) ==
    /\ Len(sample) = (IF Len(records) < n THEN Len(records) ELSE n)
    /\ \A i \in 1..Len(sample) : sample[i] = records[i]

\* C18: the sample of records in the prompt of the chart-parameter model is
\* the first 5 extracted records at most, whatever the number of records
\* extracted, in every revision of the visualization tool.
C18_SampleIsFirstFive ==
    Generating => FirstOf(analysisPrompt.transactions, transactions, 5)

----------------------------------------------------------------------------
\* The records of txs that have a description.
Described(txs) == SelectSeq(txs, LAMBDA t : t.description # "")

\* The records of txs that have a description and share it, lower-cased with
\* its whitespace collapsed and trimmed, with the record t.
SameDescription(txs, t) ==
    {i \in 1..Len(txs) :
        /\ txs[i].description # ""
        /\ simplifiedDesc(txs[i].description) = simplifiedDesc(t.description)}

\* The list out holds the records of txs whose description more than one
\* record with a description has, each as often as txs does, in the order of
\* txs, and no record without a description.
RecurringOf(out, txs) ==
    /\ InOrderOf(out, txs)
    /\ \A k \in 1..Len(out) : out[k].description # ""
    /\ \A i \in 1..Len(txs) :
          Occurrences(out, txs[i]) =
              IF txs[i].description # "" /\ Cardinality(SameDescription(txs, txs[i])) > 1
              THEN Occurrences(txs, txs[i]) ELSE 0

\* The records without a description change nothing: the filter gives on the
\* records with a description what it gives on all of them.
IgnoresUndescribed(txs) ==
    findRecurringTransactions(Described(txs)) = findRecurringTransactions(txs)

\* The request asks for the recurring records: by its filterType, by its query.
RecurringByType == vizParams.filterType = "recurring_only"
RecurringByQuery == IsSubstring("recurring", toLowerCase(query))

\* C20: a record without a description never makes the recurring filter fail,
\* it is left out of the filter's output and counts toward no description's
\* occurrences, in the current revision of the filter, which tests for the
\* description in both passes, and in the earlier one, which no record without
\* a description reaches.
C20_UndescribedNeverFails ==
    /\ (Generating /\ rev = "visualize") =>
          /\ RecurringOf(findRecurringTransactions(transactions), transactions)
          /\ IgnoresUndescribed(transactions)
    /\ (Charted /\ rev = "visualize" /\ RecurringByQuery) =>
          /\ RecurringOf(Prefiltered, KeywordFiltered)
          /\ IgnoresUndescribed(KeywordFiltered)
    /\ (rev = "visualize_legacy" /\ pc \in {"generating", "done", "failed"}) =>
          /\ ~filterThrowsLegacy(transactions, "recurring_only")
          /\ (pc = "done" /\ RecurringByType) =>
                 RecurringOf(filterByTypeLegacy(transactions, vizParams.filterType),
                             transactions)

\* C20 witness: a charted request for recurring records whose extracted
\* records hold two without a description, alike in all else, beside
\* records that share a description; the two are not charted.
C20_Witness ==
    /\ Charted /\ rev = "visualize" /\ RecurringByQuery /\ RecurringByType
    /\ Cardinality({i \in 1..Len(transactions) :
                        /\ transactions[i].description = ""
                        /\ transactions[i].category = fee.category}) = 2
    /\ Len(Prefiltered) > 0
    /\ \A k \in 1..Len(Prefiltered) : Prefiltered[k].description # ""
    /\ response.data # <<>>

----------------------------------------------------------------------------
\* The seed items: the user item, the totals item and every transaction batch.
SeedItems == {userRecord, totalsRecord} \cup {batchRecord(i) : i \in 0..(batchCount - 1)}

\* How often the item has been upserted to the vector store.
Upserts(item) == Cardinality({k \in 1..Len(store) : store[k] = item})

\* C21: seed-data initialization runs at most once per process. Under every
\* interleaving of concurrent finance requests each seed item is upserted to
\* the vector store at most once.
C21_SeededAtMostOnce == \A item \in SeedItems : Upserts(item) <= 1

\* C22: a finance request issues its vector-store query only after seed-data
\* initialization has completed.
C22_QueryAfterInitialization ==
    \A r \in Callers : calls[r].pc = "querying" => isInitialized

\* C23: whenever isInitialized is true, the user item, the totals item and
\* every transaction batch have been upserted.
C23_InitializedMeansSeeded ==
    isInitialized => \A item \in SeedItems : Upserts(item) >= 1

----------------------------------------------------------------------------
\* The handler of the finance request has ended with the agent's steps.
Handled == handler.pc \in {"returned", "threw"} /\ handler.calls # <<>>

\* The tool-result steps among the agent's steps.
ToolResults == SelectSeq(steps, LAMBDA step : step.stepType = "tool-result")

\* C24: the finance HTTP handler sends exactly one response per request. It
\* calls res.json once and returns; the body is the text of a tool-result step
\* when the agent's steps contain one, and the fallback message only when
\* they contain none, for any number of tool-result steps.
C24_ExactlyOneResponse ==
    Handled =>
        /\ handler.pc = "returned"
        /\ Len(handler.calls) = 1
        /\ handler.calls = res
        /\ IF ToolResults = <<>>
           THEN res[1] = FallbackBody
           ELSE \E i \in 1..Len(ToolResults) : res[1] = [data |-> ToolResults[i].text]

----------------------------------------------------------------------------
\* The header that announces n transactions.
HeaderOf(n) == "Found " \o ToString(n) \o " relevant transactions:"

\* The summary has a header with a count.
Counted == Summarized /\ rev \in {"finance", "finance_legacy"}
           /\ StartsWith(response.summary, "Found ")

\* C25: in the summary path the count N announced in the header "Found N
\* relevant transactions" equals the number of transaction lines rendered
\* below it, and N is at most 20.
C25_HeaderCountsLines ==
    Counted =>
        /\ Head(split(response.summary, "\n")) = HeaderOf(Len(SummaryLines))
        /\ Len(SummaryLines) <= 20

----------------------------------------------------------------------------
\* C26: the labels of the entries of a chart payload's data list are pairwise
\* distinct: no two buckets have the same display label after capitalization.
C26_LabelsAreDistinct ==
    (Charted /\ rev = "visualize") =>
        \A i \in 1..Len(response.data), j \in 1..Len(response.data) :
            response.data[i].label = response.data[j].label => i = j

----------------------------------------------------------------------------
RECURSIVE SumOfTotals(_)
\* The sum of totalAmount over the buckets.
SumOfTotals(buckets) ==
    IF buckets = <<>> THEN 0 ELSE Head(buckets).totalAmount + SumOfTotals(Tail(buckets))

RECURSIVE SumOfValues(_)
\* The sum of the values of the entries.
SumOfValues(entries) ==
    IF entries = <<>> THEN 0 ELSE Head(entries).value + SumOfValues(Tail(entries))

RECURSIVE MembersIn(_)
\* The number of members of the buckets together.
MembersIn(buckets) ==
    IF buckets = <<>> THEN 0 ELSE Len(Head(buckets).transactions) + MembersIn(Tail(buckets))

\* The buckets that have the record among their members.
BucketsWith(buckets, t) ==
    {i \in 1..Len(buckets) :
        \E k \in 1..Len(buckets[i].transactions) : buckets[i].transactions[k] = t}

\* Every record is a member of exactly one bucket, as often as it is among the
\* records, and the buckets have no other member.
InExactlyOneBucket(buckets, txs) ==
    /\ MembersIn(buckets) = Len(txs)
    /\ \A n \in 1..Len(txs) :
          /\ Cardinality(BucketsWith(buckets, txs[n])) = 1
          /\ \A i \in BucketsWith(buckets, txs[n]) :
                Occurrences(buckets[i].transactions, txs[n]) = Occurrences(txs, txs[n])

\* Every record adds to exactly one entry: the labels of the entries are
\* distinct and the label of every record is among them.
InExactlyOneEntry(entries, txs, groupingMethod) ==
    /\ \A i \in 1..Len(entries), j \in 1..Len(entries) :
          entries[i].label = entries[j].label => i = j
    /\ \A n \in 1..Len(txs) :
          \E i \in 1..Len(entries) :
              entries[i].label = capitalizeLabelLegacy(groupKeyLegacy(txs[n], groupingMethod))

\* C27: grouping conserves records and magnitude. Every filtered record is a
\* member of exactly one bucket, and the sum of totalAmount over all buckets
\* equals the sum of the absolute amounts of all filtered records (an amount
\* that is no number counting as 0), for every grouping key name, recognized
\* or not, in both revisions of the grouping.
C27_GroupingConserves ==
    /\ (Charted /\ rev = "visualize") =>
          /\ InExactlyOneBucket(Buckets, Prefiltered)
          /\ SumOfTotals(Buckets) = SumOfAbsolutes(Prefiltered)
          /\ SumOfValues(response.data) = SumOfAbsolutes(Prefiltered)
    /\ (Charted /\ rev = "visualize_legacy") =>
          /\ InExactlyOneEntry(BucketEntries, GroupedLegacy, vizParams.dataGrouping)
          /\ SumOfValues(BucketEntries) = SumOfAbsolutes(GroupedLegacy)

\* C27 witness: a chart grouped by a key name the code does not know, with
\* more than one bucket, fewer buckets than records, a record that is there
\* twice and a record whose amount is no number.
C27_Witness ==
    /\ Charted /\ rev = "visualize" /\ vizParams.dataGrouping = "by_week"
    /\ Len(Buckets) > 1 /\ Len(Buckets) < Len(Prefiltered)
    /\ \E n \in 1..Len(Prefiltered) : Occurrences(Prefiltered, Prefiltered[n]) > 1
    /\ \E n \in 1..Len(Prefiltered) : Number(Prefiltered[n].amount).nan
    /\ SumOfTotals(Buckets) > 0

====
